---------------------------- MODULE Spec2Model ----------------------------
(***************************************************************************)
(* Model of the gregdel/pushover client library: message validation        *)
(* (message.go), token validation and request encoding (pushover.go), the  *)
(* building of HTTP requests and the decoding of the responses             *)
(* (request.go, pushover.go, glances.go).                                  *)
(*                                                                         *)
(* A Go string is modelled as the sequence of its Unicode code points      *)
(* (integers); its byte length is the sum of the UTF-8 widths of the code  *)
(* points.  A time.Duration is modelled in whole milliseconds (TLC's        *)
(* integers are 32 bits wide, a Duration counts nanoseconds in 64 bits).   *)
(* Errors are named by their Go identifiers, "nil" is the nil error.       *)
(* pushover.go holds several revisions of the package; the model follows   *)
(* the one that goes with message.go and request.go (encodeRequest built   *)
(* on Message.toMap).                                                      *)
(***************************************************************************)
EXTENDS Integers, Sequences, FiniteSets, TLC

VARIABLES
    token,      \* Pushover.token, set by New
    fs,         \* the file system: path -> size in bytes, or NoFile
    pc,         \* "idle" between calls, "done" when a call has returned
    op,         \* the operation of the last call
    msg,        \* the *Message argument of the last call
    rcpt,       \* Recipient.token of the recipient argument of the last call
    err,        \* the error returned by the last call
    params,     \* the map[string]string returned by the last call (NilMap: nil)
    req,        \* the *http.Request built by the last call (NoRequest: nil)
    sent,       \* the number of requests the last call handed to the HTTP client
    resp,       \* the *http.Response the last call received (NoResponse: none)
    decoded,    \* TRUE when the last call ran the JSON decoder on the body
    result,     \* the pointer returned by the last call (NilResult: nil)
    errors,     \* the Errors value returned as error when err = "Errors"
    receipt,    \* the receipt argument of the last call
    glance,     \* the *Glance argument of the last call
    openFiles,  \* the files the last call opened and did not close
    openBodies, \* the response bodies the last call received and did not close
    APIEndpoint,
                \* the package variable APIEndpoint, the base URL of the service
    calls       \* the calls in progress in the goroutines that share the client

\* the variables of the HTTP exchange
httpVars ==
    <<req, sent, resp, decoded, result, errors, openFiles, openBodies>>

\* the arguments that only some calls take
argVars == <<receipt, glance>>

vars == <<token, fs, pc, op, msg, rcpt, err, params, req, sent, resp, decoded,
          result, errors, receipt, glance, openFiles, openBodies, APIEndpoint,
          calls>>

-----------------------------------------------------------------------------
(* Bounds of the model *)

\* priorities are drawn from -MaxAbsPriority .. MaxAbsPriority
MaxAbsPriority == 3

-----------------------------------------------------------------------------
(* Program constants *)

MessageMaxLength == 1024
MessageTitleMaxLength == 250
MessageURLMaxLength == 512
MessageURLTitleMaxLength == 100
MessageMaxAttachementByte == 2621440

PriorityLowest == -2
PriorityLow == -1
PriorityNormal == 0
PriorityHigh == 1
PriorityEmergency == 2

-----------------------------------------------------------------------------
(* Go strings *)

\* the string of n copies of the code point c
Rep(c, n) == [i \in 1..n |-> c]

\* len(s) of a Go string: the number of bytes of its UTF-8 encoding, one
\* byte for a code point below 128, two below 2048, three below 65536, four
\* above
ByteLen(s) ==
    LET wide == {i \in 1..Len(s) : s[i] >= 128}
    IN  Len(s) + Cardinality(wide)
            + Cardinality({i \in wide : s[i] >= 2048})
            + Cardinality({i \in wide : s[i] >= 65536})

\* [A-Za-z0-9]
IsAlnum(c) == (c >= 65 /\ c <= 90) \/ (c >= 97 /\ c <= 122) \/ (c >= 48 /\ c <= 57)

\* [A-Za-z0-9_-]
IsDeviceChar(c) == IsAlnum(c) \/ c = 95 \/ c = 45

\* tokenRegexp.MatchString, recipientRegexp.MatchString: ^[A-Za-z0-9]{30}$
TokenMatch(s) == Len(s) = 30 /\ \A i \in 1..Len(s) : IsAlnum(s[i])

\* deviceNameRegexp.MatchString: ^[A-Za-z0-9_-]{1,25}$
DeviceNameMatch(s) ==
    Len(s) >= 1 /\ Len(s) <= 25 /\ \A i \in 1..Len(s) : IsDeviceChar(s[i])

-----------------------------------------------------------------------------
(* The file system seen by os.Stat *)

NoFile == -1

\* os.Stat(path): the size of the file, NoFile when Stat returns an error
Stat(files, path) == IF path \in DOMAIN files THEN files[path] ELSE NoFile

\* the paths that name a directory: os.Stat and os.Open succeed on them, a
\* read of the open handle fails
Directories == {<<100>>}

-----------------------------------------------------------------------------
(* message.go *)

\* the zero value of the Message struct
ZeroMessage ==
    [Message |-> <<>>, Title |-> <<>>, Priority |-> 0, URL |-> <<>>,
     URLTitle |-> <<>>, Timestamp |-> 0, Retry |-> 0, Expire |-> 0,
     CallbackURL |-> <<>>, DeviceName |-> <<>>, Sound |-> <<>>,
     HTML |-> FALSE, AttachmentPath |-> <<>>]

\* NewMessage(message)
NewMessage(message) == [ZeroMessage EXCEPT !.Message = message]

\* NewMessageWithTitle(message, title)
NewMessageWithTitle(message, title) ==
    [ZeroMessage EXCEPT !.Message = message, !.Title = title]

\* the first error of a sequence of checks, each "nil" or an error: the
\* early returns of a function that runs the checks in this order
RECURSIVE FirstError(_)
FirstError(checks) ==
    IF checks = <<>> THEN "nil"
    ELSE IF Head(checks) # "nil" THEN Head(checks)
    ELSE FirstError(Tail(checks))

\* validate: "Message should no be empty", "Validate message length"
validateBody(m) ==
    IF m.Message = <<>> THEN "ErrMessageEmpty"
    ELSE IF ByteLen(m.Message) > MessageMaxLength THEN "ErrMessageTooLong"
    ELSE "nil"

\* validate: "Validate Title field length", "Validate URL field", "Validate
\* URL title field"
validateLengths(m) ==
    IF ByteLen(m.Title) > MessageTitleMaxLength THEN "ErrMessageTitleTooLong"
    ELSE IF ByteLen(m.URL) > MessageURLMaxLength THEN "ErrMessageURLTooLong"
    ELSE IF ByteLen(m.URLTitle) > MessageURLTitleMaxLength
         THEN "ErrMessageURLTitleTooLong"
    ELSE "nil"

\* validate: "URLTitle should not be set with an empty URL"
validateURLTitle(m) ==
    IF m.URL = <<>> /\ m.URLTitle # <<>> THEN "ErrEmptyURL" ELSE "nil"

\* variant: the lower bound of the priority is not checked
validatePriority_NoLowerBound(m) ==
    IF m.Priority > PriorityEmergency THEN "ErrInvalidPriority" ELSE "nil"

\* validate: "Validate priorities"
validatePriority(m) ==
    IF m.Priority > PriorityEmergency \/ m.Priority < PriorityLowest
    THEN "ErrInvalidPriority"
    ELSE "nil"

\* variant: the parameters are missing only when both are zero
validateEmergency_BothZero(m) ==
    IF m.Priority = PriorityEmergency /\ (m.Retry = 0 /\ m.Expire = 0)
    THEN "ErrMissingEmergencyParameter"
    ELSE "nil"

\* validate: "Validate emergency priority"
validateEmergency(m) ==
    IF m.Priority = PriorityEmergency /\ (m.Retry = 0 \/ m.Expire = 0)
    THEN "ErrMissingEmergencyParameter"
    ELSE "nil"

\* validate: "Test device name"
validateDeviceName(m) ==
    IF m.DeviceName # <<>> /\ ~DeviceNameMatch(m.DeviceName)
    THEN "ErrInvalidDeviceName"
    ELSE "nil"

\* validate: "Test file attachment", reading the file system `files`
validateAttachment(m, files) ==
    IF m.AttachmentPath = <<>> THEN "nil"
    ELSE IF Stat(files, m.AttachmentPath) = NoFile THEN "ErrInvalidAttachementPath"
    ELSE IF Stat(files, m.AttachmentPath) > MessageMaxAttachementByte
         THEN "ErrMessageAttachementTooLarge"
    ELSE "nil"

\* variant: the device name is tested before the emergency parameters
MessageValidate_DeviceNameEarly(m, files) ==
    FirstError(<<validateBody(m), validateLengths(m), validateURLTitle(m),
                 validatePriority(m), validateDeviceName(m), validateEmergency(m),
                 validateAttachment(m, files)>>)

\* variant: the URLTitle-without-URL check runs after the device name test
MessageValidate_URLTitleLate(m, files) ==
    FirstError(<<validateBody(m), validateLengths(m), validatePriority(m),
                 validateEmergency(m), validateDeviceName(m), validateURLTitle(m),
                 validateAttachment(m, files)>>)

\* (m *Message) validate(), reading the file system `files`
MessageValidate(m, files) ==
    FirstError(<<validateBody(m), validateLengths(m), validateURLTitle(m),
                 validatePriority(m), validateEmergency(m), validateDeviceName(m),
                 validateAttachment(m, files)>>)

\* the decimal digits of n >= 0, as a string
RECURSIVE Digits(_)
Digits(n) ==
    IF n < 10 THEN <<48 + n>> ELSE Append(Digits(n \div 10), 48 + (n % 10))

\* strconv.Itoa(n), strconv.FormatInt(n, 10)
Itoa(n) == IF n < 0 THEN <<45>> \o Digits(-n) ELSE Digits(n)

\* the digits of the fraction f/1000 (0 < f < 1000) without trailing zeros
FractionDigits(f) ==
    IF f % 100 = 0 THEN <<48 + (f \div 100)>>
    ELSE IF f % 10 = 0 THEN <<48 + (f \div 100), 48 + ((f \div 10) % 10)>>
    ELSE <<48 + (f \div 100), 48 + ((f \div 10) % 10), 48 + (f % 10)>>

\* variant: the duration is written in its own unit, not in seconds
FormatSeconds_Milliseconds(d) == Itoa(d)

\* strconv.FormatFloat(d.Seconds(), 'f', -1, 64) of a Duration d of whole
\* milliseconds: the shortest decimal notation of d/1000
FormatSeconds(d) ==
    LET a == IF d < 0 THEN -d ELSE d
        sign == IF d < 0 THEN <<45>> ELSE <<>>
        whole == Digits(a \div 1000)
    IN  IF a % 1000 = 0 THEN sign \o whole
        ELSE sign \o whole \o <<46>> \o FractionDigits(a % 1000)

\* variant: title is written whether or not Title is set
toMap_TitleAlways(m) ==
    LET always == [k \in {"message", "priority", "title"} |->
                      IF k = "message" THEN m.Message
                      ELSE IF k = "title" THEN m.Title ELSE Itoa(m.Priority)]
        opt(k, v, set) == IF set THEN (k :> v) ELSE <<>>
    IN  always @@ opt("url", m.URL, m.URL # <<>>)
            @@ opt("url_title", m.URLTitle, m.URLTitle # <<>>)
            @@ opt("sound", m.Sound, m.Sound # <<>>)
            @@ opt("device", m.DeviceName, m.DeviceName # <<>>)
            @@ opt("timestamp", Itoa(m.Timestamp), m.Timestamp # 0)
            @@ opt("html", <<49>>, m.HTML)
            @@ opt("attachment_path", m.AttachmentPath, m.AttachmentPath # <<>>)
            @@ opt("retry", FormatSeconds(m.Retry), m.Priority = PriorityEmergency)
            @@ opt("expire", FormatSeconds(m.Expire), m.Priority = PriorityEmergency)
            @@ opt("callback", m.CallbackURL,
                   m.Priority = PriorityEmergency /\ m.CallbackURL # <<>>)

\* (m *Message) toMap()
toMap(m) ==
    LET base == [k \in {"message", "priority"} |->
                    IF k = "message" THEN m.Message ELSE Itoa(m.Priority)]
        title == IF m.Title # <<>> THEN ("title" :> m.Title) ELSE <<>>
        url == IF m.URL # <<>> THEN ("url" :> m.URL) ELSE <<>>
        urlTitle == IF m.URLTitle # <<>> THEN ("url_title" :> m.URLTitle) ELSE <<>>
        sound == IF m.Sound # <<>> THEN ("sound" :> m.Sound) ELSE <<>>
        device == IF m.DeviceName # <<>> THEN ("device" :> m.DeviceName) ELSE <<>>
        timestamp == IF m.Timestamp # 0
                     THEN ("timestamp" :> Itoa(m.Timestamp)) ELSE <<>>
        html == IF m.HTML THEN ("html" :> <<49>>) ELSE <<>>
        attachment == IF m.AttachmentPath # <<>>
                      THEN ("attachment_path" :> m.AttachmentPath) ELSE <<>>
        emergency ==
            IF m.Priority = PriorityEmergency
            THEN ("retry" :> FormatSeconds(m.Retry))
                 @@ ("expire" :> FormatSeconds(m.Expire))
                 @@ (IF m.CallbackURL # <<>>
                     THEN ("callback" :> m.CallbackURL) ELSE <<>>)
            ELSE <<>>
    IN  base @@ title @@ url @@ urlTitle @@ sound @@ device @@ timestamp
             @@ html @@ attachment @@ emergency

-----------------------------------------------------------------------------
(* pushover.go *)

\* (p *Pushover) validate()
PushoverValidate(t) ==
    IF t = <<>> THEN "ErrEmptyToken"
    ELSE IF ~TokenMatch(t) THEN "ErrInvalidToken"
    ELSE "nil"

\* variant: the recipient check reports the sender-token errors
RecipientValidate_SenderErrors(t) ==
    IF t = <<>> THEN "ErrEmptyToken"
    ELSE IF ~TokenMatch(t) THEN "ErrInvalidToken"
    ELSE "nil"

\* (u *Recipient) validate()
RecipientValidate(t) ==
    IF t = <<>> THEN "ErrEmptyRecipientToken"
    ELSE IF ~TokenMatch(t) THEN "ErrInvalidRecipientToken"
    ELSE "nil"

\* a nil map[string]string
NilMap == <<>>

\* variant: the recipient is validated before the sender token
encodeRequest_RecipientFirst(t, m, r, files) ==
    IF RecipientValidate(r) # "nil"
    THEN [params |-> NilMap, err |-> RecipientValidate(r)]
    ELSE IF PushoverValidate(t) # "nil"
    THEN [params |-> NilMap, err |-> PushoverValidate(t)]
    ELSE IF MessageValidate(m, files) # "nil"
    THEN [params |-> NilMap, err |-> MessageValidate(m, files)]
    ELSE [params |-> ("token" :> t) @@ ("user" :> r) @@ toMap(m), err |-> "nil"]

\* (p *Pushover) encodeRequest(message, recipient): the pair (params, err)
encodeRequest(t, m, r, files) ==
    IF PushoverValidate(t) # "nil"
    THEN [params |-> NilMap, err |-> PushoverValidate(t)]
    ELSE IF RecipientValidate(r) # "nil"
    THEN [params |-> NilMap, err |-> RecipientValidate(r)]
    ELSE IF MessageValidate(m, files) # "nil"
    THEN [params |-> NilMap, err |-> MessageValidate(m, files)]
    ELSE [params |-> ("token" :> t) @@ ("user" :> r) @@ toMap(m), err |-> "nil"]

-----------------------------------------------------------------------------
(* request.go: the requests *)

\* An *http.Request: the method, the URL as the pair of the base taken from
\* APIEndpoint and the path formatted after it, the values formatted into the
\* path, the Content-Type header, the file parts and the form fields of the
\* body.  NoRequest is the nil request.
NoRequest ==
    [Method |-> "", URL |-> <<>>, URLArgs |-> <<>>, ContentType |-> "",
     Files |-> <<>>, Fields |-> NilMap]

\* delete(m, k)
Delete(m, k) == [x \in DOMAIN m \ {k} |-> m[x]]

\* url.Parse, run by http.NewRequest: a URL that starts with a colon has no
\* protocol scheme and is refused
urlParse(url) == IF url[1] = ":" THEN "url.Error" ELSE "nil"

\* variant: the file is closed by hand before the successful return only
multipartRequest_LeakOnError(method, url, ps, files) ==
    LET attached == "attachment_path" \in DOMAIN ps
        path == IF attached THEN ps["attachment_path"] ELSE <<>>
        size == IF attached THEN Stat(files, path) ELSE NoFile
        opened == IF attached /\ size # NoFile THEN 1 ELSE 0
    IN  IF attached /\ size = NoFile
        THEN [req |-> NoRequest, err |-> "os.PathError", open |-> 0]
        ELSE IF attached /\ path \in Directories
        THEN [req |-> NoRequest, err |-> "read: is a directory", open |-> opened]
        ELSE IF urlParse(url) # "nil"
        THEN [req |-> NoRequest, err |-> urlParse(url), open |-> opened]
        ELSE [req |-> [Method |-> method, URL |-> url, URLArgs |-> <<>>,
                       ContentType |-> "multipart/form-data",
                       Files |-> IF attached
                                 THEN <<[FieldName |-> "attachment",
                                         FileName |-> "poster", Size |-> size]>>
                                 ELSE <<>>,
                       Fields |-> Delete(ps, "attachment_path")],
              err |-> "nil", open |-> 0]

\* multipartRequest(method, url, params): the triple (req, err, open), open
\* being the number of file handles the call leaves open.  os.Open fails on a
\* path that names no file; io.Copy writes the whole file to the part and
\* fails on a directory; http.NewRequest fails on a URL that does not parse.
\* The writes to the in-memory buffer do not fail.  The deferred file.Close
\* runs at every return that follows a successful os.Open.
multipartRequest(method, url, ps, files) ==
    LET attached == "attachment_path" \in DOMAIN ps
        path == IF attached THEN ps["attachment_path"] ELSE <<>>
        size == IF attached THEN Stat(files, path) ELSE NoFile
        opened == IF attached /\ size # NoFile THEN 1 ELSE 0
        closed == opened
        return(rq, e) == [req |-> rq, err |-> e, open |-> opened - closed]
    IN  IF attached /\ size = NoFile THEN return(NoRequest, "os.PathError")
        ELSE IF attached /\ path \in Directories
        THEN return(NoRequest, "read: is a directory")
        ELSE IF urlParse(url) # "nil" THEN return(NoRequest, urlParse(url))
        ELSE return([Method |-> method, URL |-> url, URLArgs |-> <<>>,
                     ContentType |-> "multipart/form-data",
                     Files |-> IF attached
                               THEN <<[FieldName |-> "attachment",
                                       FileName |-> "poster", Size |-> size]>>
                               ELSE <<>>,
                     Fields |-> Delete(ps, "attachment_path")],
                    "nil")

\* newURLEncodedRequest(method, url, params): the form fields are the body,
\* the content type is application/x-www-form-urlencoded
newURLEncodedRequest(method, url, ps) ==
    [req |-> [Method |-> method, URL |-> url, URLArgs |-> <<>>,
              ContentType |-> "application/x-www-form-urlencoded",
              Files |-> <<>>, Fields |-> ps],
     err |-> "nil"]

-----------------------------------------------------------------------------
(* The responses of the server *)

\* What the HTTP client gives back: Failed when the exchange failed (client.Do
\* returns an error), else the status code, the body and the header.  A body
\* is empty, malformed, or a JSON object (a function from its keys to their
\* values); a header maps a name to the list of its values.
NoResponse ==
    [Failed |-> FALSE, StatusCode |-> 0, Body |-> [kind |-> "empty", obj |-> <<>>],
     Header |-> <<>>]

\* http.StatusInternalServerError
StatusInternalServerError == 500

\* the value of key k of the JSON object o, or the zero value z the Go field
\* keeps when the key is absent
Field(o, k, z) == IF k \in DOMAIN o THEN o[k] ELSE z

\* the error of json.Decoder.Decode on a body that is not a JSON value
SyntaxError(body) ==
    IF body.kind = "empty" THEN "io.EOF"
    ELSE IF body.kind = "malformed" THEN "json.SyntaxError"
    ELSE "nil"

-----------------------------------------------------------------------------
(* pushover.go: Limit *)

\* the value of a string of digits
RECURSIVE ParseDigits(_)
ParseDigits(s) ==
    IF Len(s) = 0 THEN 0
    ELSE 10 * ParseDigits(SubSeq(s, 1, Len(s) - 1)) + (s[Len(s)] - 48)

\* strconv.Atoi(s): the pair (i, err); an optional sign, then digits only
Atoi(s) ==
    LET signed == Len(s) > 0 /\ s[1] \in {43, 45}
        digits == IF signed THEN Tail(s) ELSE s
    IN  IF Len(digits) = 0 \/ \E i \in 1..Len(digits) : digits[i] \notin 48..57
        THEN [i |-> 0, err |-> "strconv.NumError"]
        ELSE [i |-> IF signed /\ s[1] = 45 THEN 0 - ParseDigits(digits)
                    ELSE ParseDigits(digits),
              err |-> "nil"]

\* time.Unix(sec, 0): an instant, as its whole seconds since the epoch
TimeUnix(sec) == [unix |-> sec]

\* a nil *Limit
NilLimit == [nil |-> TRUE]

\* the three header names, in the order newLimit reads them
headersStrings ==
    <<"X-Limit-App-Limit", "X-Limit-App-Remaining", "X-Limit-App-Reset">>

\* the error of newLimit for one header: absent, not one value, not an integer
headerError(headers, header) ==
    IF header \notin DOMAIN headers THEN "ErrInvalidHeaders"
    ELSE IF Len(headers[header]) # 1 THEN "ErrInvalidHeaders"
    ELSE Atoi(headers[header][1]).err

\* variant: X-Limit-App-Reset is optional, the reset is the epoch without it
newLimit_ResetOptional(headers) ==
    LET e == FirstError([n \in 1..2 |-> headerError(headers, headersStrings[n])])
        reset == IF headerError(headers, "X-Limit-App-Reset") = "nil"
                 THEN Atoi(headers["X-Limit-App-Reset"][1]).i ELSE 0
    IN  IF e # "nil" THEN [limit |-> NilLimit, err |-> e]
        ELSE [limit |->
                [nil |-> FALSE,
                 Total |-> Atoi(headers["X-Limit-App-Limit"][1]).i,
                 Remaining |-> Atoi(headers["X-Limit-App-Remaining"][1]).i,
                 NextReset |-> TimeUnix(reset)],
              err |-> "nil"]

\* newLimit(headers): the pair (limit, err)
newLimit(headers) ==
    LET e == FirstError([n \in 1..3 |-> headerError(headers, headersStrings[n])])
    IN  IF e # "nil" THEN [limit |-> NilLimit, err |-> e]
        ELSE [limit |->
                [nil |-> FALSE,
                 Total |-> Atoi(headers["X-Limit-App-Limit"][1]).i,
                 Remaining |-> Atoi(headers["X-Limit-App-Remaining"][1]).i,
                 NextReset |-> TimeUnix(Atoi(headers["X-Limit-App-Reset"][1]).i)],
              err |-> "nil"]

-----------------------------------------------------------------------------
(* request.go: do *)

\* a nil pointer returned as result
NilResult == [type |-> "nil"]

\* json decoding into a *Response: absent keys leave the zero values
DecodeResponse(o) ==
    [type |-> "Response", Status |-> Field(o, "status", 0),
     ID |-> Field(o, "request", ""), Errors |-> Field(o, "errors", <<>>),
     Receipt |-> Field(o, "receipt", ""), Limit |-> NilLimit]

\* json decoding into a *RecipientDetails
DecodeRecipientDetails(o) ==
    [type |-> "RecipientDetails", Status |-> Field(o, "status", 0),
     Group |-> Field(o, "group", 0), Devices |-> Field(o, "devices", <<>>),
     RequestID |-> Field(o, "request", ""), Errors |-> Field(o, "errors", <<>>)]

\* the zero value the caller of do allocates behind resType
ZeroValue(resType) ==
    IF resType = "Response" THEN DecodeResponse(<<>>)
    ELSE DecodeRecipientDetails(<<>>)

\* what do leaves: its error, the Errors value when the error is one, the
\* value written through resType, whether the decoder ran, and the number of
\* response bodies it leaves open: none, a failed exchange gives no body and
\* the deferred resp.Body.Close runs at every return that follows
DoResult(e, es, v, d) ==
    [err |-> e, errors |-> es, val |-> v, decoded |-> d, open |-> 0]

\* variant: the status of the decoded Response is not checked
do_NoStatusCheck(r, resType, returnHeaders) ==
    IF r.Failed THEN DoResult("net/http error", <<>>, NilResult, FALSE)
    ELSE IF r.StatusCode >= StatusInternalServerError
    THEN DoResult("ErrHTTPPushover", <<>>, NilResult, FALSE)
    ELSE IF SyntaxError(r.Body) # "nil"
    THEN DoResult(SyntaxError(r.Body), <<>>, NilResult, TRUE)
    ELSE IF r.Body.kind = "null"
    THEN DoResult("nil", <<>>, ZeroValue(resType), TRUE)
    ELSE IF resType # "Response"
    THEN DoResult("nil", <<>>, DecodeRecipientDetails(r.Body.obj), TRUE)
    ELSE LET v == DecodeResponse(r.Body.obj)
             l == newLimit(r.Header)
         IN  IF ~returnHeaders THEN DoResult("nil", <<>>, v, TRUE)
             ELSE IF l.err # "nil" THEN DoResult(l.err, <<>>, v, TRUE)
             ELSE DoResult("nil", <<>>, [v EXCEPT !.Limit = l.limit], TRUE)

\* do(req, resType, returnHeaders) on the outcome r of client.Do(req);
\* resType points to a Response or to a RecipientDetails.  The decoder is
\* given the address of the parameter resType: the literal null sets that
\* interface to nil, nothing is written behind the pointer of the caller, the
\* type assertion fails and do returns nil.
do(r, resType, returnHeaders) ==
    IF r.Failed THEN DoResult("net/http error", <<>>, NilResult, FALSE)
    ELSE IF r.StatusCode >= StatusInternalServerError
    THEN DoResult("ErrHTTPPushover", <<>>, NilResult, FALSE)
    ELSE IF SyntaxError(r.Body) # "nil"
    THEN DoResult(SyntaxError(r.Body), <<>>, NilResult, TRUE)
    ELSE IF r.Body.kind = "null"
    THEN DoResult("nil", <<>>, ZeroValue(resType), TRUE)
    ELSE IF resType # "Response"
    THEN DoResult("nil", <<>>, DecodeRecipientDetails(r.Body.obj), TRUE)
    ELSE LET v == DecodeResponse(r.Body.obj)
             l == newLimit(r.Header)
         IN  IF v.Status # 1 THEN DoResult("Errors", v.Errors, v, TRUE)
             ELSE IF ~returnHeaders THEN DoResult("nil", <<>>, v, TRUE)
             ELSE IF l.err # "nil" THEN DoResult(l.err, <<>>, v, TRUE)
             ELSE DoResult("nil", <<>>, [v EXCEPT !.Limit = l.limit], TRUE)

-----------------------------------------------------------------------------
(* pushover.go: the calls to the service *)

\* what a call leaves: the request built, the number of requests sent, the
\* response received, whether the decoder ran, the pointer and the error
\* returned, the Errors value when the error is one, and the numbers of file
\* handles and of response bodies still open at the return
Outcome(rq, n, rs, d, res, e, es, ob) ==
    [req |-> rq, sent |-> n, resp |-> rs, decoded |-> d, result |-> res,
     err |-> e, errors |-> es, openFiles |-> 0, openBodies |-> ob]

\* a call that returns the error e before any request is built
Rejected(e) == Outcome(NoRequest, 0, NoResponse, FALSE, NilResult, e, <<>>, 0)

\* variant: a call that failed sends its request a second time
Done_Retry(rq, srv, d) ==
    Outcome(rq, IF d.err # "nil" THEN 2 ELSE 1, srv, d.decoded,
            IF d.err # "nil" THEN NilResult ELSE d.val, d.err, d.errors, d.open)

\* the end of a call that sends rq through do: nil and the error, or the
\* decoded value and nil
Done(rq, srv, d) ==
    Outcome(rq, 1, srv, d.decoded, IF d.err # "nil" THEN NilResult ELSE d.val,
            d.err, d.errors, d.open)

\* (p *Pushover) SendMessage(message, recipient), srv being the outcome of
\* the HTTP exchange
SendMessage(t, m, r, files, srv) ==
    LET url == <<APIEndpoint, "/messages.json">>
        enc == encodeRequest(t, m, r, files)
        mp == multipartRequest("POST", url, enc.params, files)
    IN  IF enc.err # "nil" THEN Rejected(enc.err)
        ELSE IF mp.err # "nil"
        THEN [Rejected(mp.err) EXCEPT !.openFiles = mp.open]
        ELSE [Done(mp.req, srv, do(srv, "Response", TRUE))
                EXCEPT !.openFiles = mp.open]

\* (p *Pushover) GetRecipientDetails(recipient): a GET with token and user
\* in a URL-encoded body, decoded into a RecipientDetails
GetRecipientDetails(t, r, srv) ==
    LET endpoint == <<APIEndpoint, "/users/validate.json">>
        rq == [Method |-> "GET", URL |-> endpoint, URLArgs |-> <<>>,
               ContentType |-> "application/x-www-form-urlencoded",
               Files |-> <<>>, Fields |-> ("token" :> t) @@ ("user" :> r)]
    IN  IF PushoverValidate(t) # "nil" THEN Rejected(PushoverValidate(t))
        ELSE IF RecipientValidate(r) # "nil" THEN Rejected(RecipientValidate(r))
        ELSE IF urlParse(endpoint) # "nil" THEN Rejected(urlParse(endpoint))
        ELSE Done(rq, srv, do(srv, "RecipientDetails", FALSE))

\* (p *Pushover) CancelEmergencyNotification(receipt): a GET with the token
\* in a URL-encoded body, decoded into a Response
CancelEmergencyNotification(t, rcp, srv) ==
    LET endpoint == <<APIEndpoint, "/receipts/%s/cancel.json">>
        rq == [Method |-> "GET", URL |-> endpoint, URLArgs |-> <<rcp>>,
               ContentType |-> "application/x-www-form-urlencoded",
               Files |-> <<>>, Fields |-> ("token" :> t)]
    IN  IF urlParse(endpoint) # "nil" THEN Rejected(urlParse(endpoint))
        ELSE Done(rq, srv, do(srv, "Response", FALSE))

-----------------------------------------------------------------------------
(* pushover.go: ReceiptDetails *)

\* a nil *time.Time
NilTime == [nil |-> TRUE]

\* variant: every integer but 0 is true
intBoolUnmarshalJSON_NonZeroTrue(v) ==
    IF v = 0 THEN [b |-> FALSE, err |-> "nil"] ELSE [b |-> TRUE, err |-> "nil"]

\* (i *intBool) UnmarshalJSON on the integer v: the pair (b, err)
intBoolUnmarshalJSON(v) ==
    IF v = 0 THEN [b |-> FALSE, err |-> "nil"]
    ELSE IF v = 1 THEN [b |-> TRUE, err |-> "nil"]
    ELSE [b |-> FALSE, err |-> "Failed to unmarshal int to bool"]

\* (t *timestamp) UnmarshalJSON on the integer i: the Time of the timestamp
timestampUnmarshalJSON(i) == IF i > 0 THEN TimeUnix(i) ELSE NilTime

\* the flags and the instants of a receipt, by their keys
receiptFlags == <<"acknowledged", "expired", "called_back">>
receiptTimes ==
    <<"acknowledged_at", "last_delivered_at", "expires_at", "called_back_at">>

\* (r *ReceiptDetails) UnmarshalJSON on the JSON object o: the pair
\* (details, err).  An absent flag stays false; an absent instant leaves a nil
\* *timestamp in aux, whose Time the assignments dereference.
ReceiptDetailsUnmarshalJSON(o) ==
    LET flagError(k) == IF k \in DOMAIN o THEN intBoolUnmarshalJSON(o[k]).err
                        ELSE "nil"
        flag(k) == IF k \in DOMAIN o THEN intBoolUnmarshalJSON(o[k]).b ELSE FALSE
        e == FirstError([n \in 1..3 |-> flagError(receiptFlags[n])])
    IN  IF e # "nil" THEN [details |-> NilResult, err |-> e]
        ELSE IF \E n \in 1..4 : receiptTimes[n] \notin DOMAIN o
        THEN [details |-> NilResult, err |-> "panic: nil pointer dereference"]
        ELSE [details |->
                [type |-> "ReceiptDetails",
                 Status |-> Field(o, "status", 0),
                 Acknowledged |-> flag("acknowledged"),
                 AcknowledgedBy |-> Field(o, "acknowledged_by", ""),
                 Expired |-> flag("expired"),
                 CalledBack |-> flag("called_back"),
                 ID |-> Field(o, "request", ""),
                 AcknowledgedAt |-> timestampUnmarshalJSON(o["acknowledged_at"]),
                 LastDeliveredAt |-> timestampUnmarshalJSON(o["last_delivered_at"]),
                 ExpiresAt |-> timestampUnmarshalJSON(o["expires_at"]),
                 CalledBackAt |-> timestampUnmarshalJSON(o["called_back_at"])],
              err |-> "nil"]

\* variant: the empty receipt is not refused
GetReceiptDetails_NoEmptyCheck(t, rcp, srv) ==
    LET rq == [Method |-> "GET",
               URL |-> <<APIEndpoint, "/receipts/%s.json?token=%s">>,
               URLArgs |-> <<rcp, t>>, ContentType |-> "",
               Files |-> <<>>, Fields |-> NilMap]
        d == ReceiptDetailsUnmarshalJSON(srv.Body.obj)
    IN  IF srv.Failed
        THEN Outcome(rq, 1, srv, FALSE, NilResult, "net/http error", <<>>, 0)
        ELSE IF SyntaxError(srv.Body) # "nil"
        THEN Outcome(rq, 1, srv, TRUE, NilResult, SyntaxError(srv.Body), <<>>, 1)
        ELSE IF srv.Body.kind = "null"
        THEN Outcome(rq, 1, srv, TRUE, NilResult, "nil", <<>>, 1)
        ELSE Outcome(rq, 1, srv, TRUE, d.details, d.err, <<>>, 1)

\* (p *Pushover) GetReceiptDetails(receipt): http.Get, then the decoder on
\* the body of whatever response came back.  The literal null leaves the
\* details pointer nil.  The body of the response is not closed.
GetReceiptDetails(t, rcp, srv) ==
    LET rq == [Method |-> "GET",
               URL |-> <<APIEndpoint, "/receipts/%s.json?token=%s">>,
               URLArgs |-> <<rcp, t>>, ContentType |-> "",
               Files |-> <<>>, Fields |-> NilMap]
        d == ReceiptDetailsUnmarshalJSON(srv.Body.obj)
    IN  IF rcp = <<>> THEN Rejected("ErrEmptyReceipt")
        ELSE IF srv.Failed
        THEN Outcome(rq, 1, srv, FALSE, NilResult, "net/http error", <<>>, 0)
        ELSE IF SyntaxError(srv.Body) # "nil"
        THEN Outcome(rq, 1, srv, TRUE, NilResult, SyntaxError(srv.Body), <<>>, 1)
        ELSE IF srv.Body.kind = "null"
        THEN Outcome(rq, 1, srv, TRUE, NilResult, "nil", <<>>, 1)
        ELSE Outcome(rq, 1, srv, TRUE, d.details, d.err, <<>>, 1)

-----------------------------------------------------------------------------
(* glances.go *)

GlancesMessageMaxTitleLength == 100
GlancesMessageMaxTextLength == 100
GlancesMessageMaxSubtextLength == 100

\* the zero value of the Glance struct
ZeroGlance ==
    [Title |-> <<>>, Text |-> <<>>, Subtext |-> <<>>, Count |-> 0,
     Percent |-> 0, DeviceName |-> <<>>]

\* utf8.RuneCountInString(s): a string is the sequence of its code points
RuneCountInString(s) == Len(s)

\* strings.Split(s, ","): the substrings between the commas, in order
RECURSIVE Split(_)
Split(s) ==
    IF \A i \in 1..Len(s) : s[i] # 44 THEN <<s>>
    ELSE LET k == CHOOSE i \in 1..Len(s) :
                    s[i] = 44 /\ \A j \in 1..(i - 1) : s[j] # 44
         IN  <<SubSeq(s, 1, k - 1)>> \o Split(SubSeq(s, k + 1, Len(s)))

\* validate: the lengths of title, text and subtext in code points
glanceLengths(m) ==
    IF RuneCountInString(m.Title) > GlancesMessageMaxTitleLength
    THEN "ErrGlancesTitleTooLong"
    ELSE IF RuneCountInString(m.Text) > GlancesMessageMaxTextLength
    THEN "ErrGlancesTextTooLong"
    ELSE IF RuneCountInString(m.Subtext) > GlancesMessageMaxSubtextLength
    THEN "ErrGlancesSubtextTooLong"
    ELSE "nil"

\* validate: the percent range
glancePercent(m) ==
    IF m.Percent < 0 \/ m.Percent > 100 THEN "ErrGlancesInvalidPercent" ELSE "nil"

\* validate: "Test device name", each element of the comma separated list
glanceDeviceName(m) ==
    IF m.DeviceName # <<>>
       /\ \E n \in 1..Len(Split(m.DeviceName)) :
              ~DeviceNameMatch(Split(m.DeviceName)[n])
    THEN "ErrInvalidDeviceName"
    ELSE "nil"

\* validate: "check if data is present"
glanceMissingData(m) ==
    IF m.Title = <<>> /\ m.Text = <<>> /\ m.Subtext = <<>> /\ m.Count = 0
       /\ m.Percent = 0
    THEN "ErrGlancesMissingData"
    ELSE "nil"

\* variant: the check for missing data runs last
GlanceValidate_MissingDataLast(m) ==
    FirstError(<<glanceLengths(m), glancePercent(m), glanceDeviceName(m),
                 glanceMissingData(m)>>)

\* (m *Glance) validate()
GlanceValidate(m) ==
    FirstError(<<glanceMissingData(m), glanceLengths(m), glancePercent(m),
                 glanceDeviceName(m)>>)

\* (m *Glance) send(pToken, rToken): the fields of the glance in a
\* URL-encoded POST, decoded into a Response
GlanceSend(m, pToken, rToken, srv) ==
    LET always == ("token" :> pToken) @@ ("user" :> rToken)
                  @@ ("count" :> Itoa(m.Count)) @@ ("percent" :> Itoa(m.Percent))
        device == IF m.DeviceName # <<>> THEN "device" :> m.DeviceName ELSE <<>>
        title == IF m.Title # <<>> THEN "title" :> m.Title ELSE <<>>
        text == IF m.Text # <<>> THEN "text" :> m.Text ELSE <<>>
        subtext == IF m.Subtext # <<>> THEN "subtext" :> m.Subtext ELSE <<>>
        nr == newURLEncodedRequest("POST", <<APIEndpoint, "/glances.json">>,
                                   always @@ device @@ title @@ text @@ subtext)
    IN  IF nr.err # "nil" THEN Rejected(nr.err)
        ELSE Done(nr.req, srv, do(srv, "Response", TRUE))

\* variant: the glance is sent before anything is validated
SendGlanceUpdate_NoValidation(t, m, r, srv) == GlanceSend(m, t, r, srv)

\* (p *Pushover) SendGlanceUpdate(glance, recipient): the sender token, the
\* recipient and the glance are validated, then the glance is sent
SendGlanceUpdate(t, m, r, srv) ==
    IF PushoverValidate(t) # "nil" THEN Rejected(PushoverValidate(t))
    ELSE IF RecipientValidate(r) # "nil" THEN Rejected(RecipientValidate(r))
    ELSE IF GlanceValidate(m) # "nil" THEN Rejected(GlanceValidate(m))
    ELSE GlanceSend(m, t, r, srv)

-----------------------------------------------------------------------------
(* The inputs of the calls *)

\* the strings of max and max+1 code points, in ASCII letters alone and with
\* one two-byte letter
LongStrings(max) ==
    {Rep(97, n) : n \in max..(max + 1)}
    \cup {Rep(97, n - 1) \o <<233>> : n \in max..(max + 1)}

\* "", valid tokens, and tokens with a wrong character or a wrong length
Tokens ==
    {<<>>, Rep(97, 30), Rep(97, 29) \o <<45>>, Rep(97, 31), Rep(97, 29)}

\* the paths given as AttachmentPath: none, no such file, a small file, a
\* file above MessageMaxAttachementByte
AttachmentPaths == {<<>>, <<109>>, <<115>>, <<98>>}

\* the recipients given to encodeRequest: "", a valid token, a wrong character
EncodeRecipients == {<<>>, Rep(97, 30), Rep(97, 29) \o <<45>>}

\* "", "dev", "d1,d2", "d^", "d1,d^" and a name of 26 letters
DeviceNames ==
    {<<>>, <<100, 101, 118>>, <<100, 49, 44, 100, 50>>, <<100, 94>>,
     <<100, 49, 44, 100, 94>>, Rep(100, 26)}

Priorities == (0 - MaxAbsPriority)..MaxAbsPriority

\* the optional fields Message.validate reads only the length of, or not at
\* all: all unset, all set
Extras ==
    {[Title |-> <<>>, Timestamp |-> 0, CallbackURL |-> <<>>, Sound |-> <<>>,
      HTML |-> FALSE],
     [Title |-> <<84>>, Timestamp |-> 1424305421, CallbackURL |-> <<99, 98>>,
      Sound |-> <<99, 111, 115, 109, 105, 99>>, HTML |-> TRUE]}

\* messages of short strings: every combination of the fields validate reads
ShortMessages ==
    {[Message |-> b, Title |-> x.Title, Priority |-> p, URL |-> u, URLTitle |-> ut,
      Timestamp |-> x.Timestamp, Retry |-> re, Expire |-> ex,
      CallbackURL |-> x.CallbackURL, DeviceName |-> d, Sound |-> x.Sound,
      HTML |-> x.HTML, AttachmentPath |-> a] :
        b \in {<<>>, <<104, 105>>}, p \in Priorities, u \in {<<>>, <<104, 116, 116, 112>>},
        ut \in {<<>>, <<71>>}, re \in {0, 60000}, ex \in {0, 3600000},
        d \in DeviceNames, a \in AttachmentPaths, x \in Extras}

\* messages with strings at the length limits, in every combination
LongMessages ==
    {[ZeroMessage EXCEPT !.Message = b, !.Title = t, !.URL = u, !.URLTitle = ut] :
        b \in LongStrings(MessageMaxLength) \cup {<<104, 105>>},
        t \in LongStrings(MessageTitleMaxLength) \cup {<<>>},
        u \in LongStrings(MessageURLMaxLength) \cup {<<>>, <<104, 116, 116, 112>>},
        ut \in LongStrings(MessageURLTitleMaxLength) \cup {<<>>}}

\* the messages given to Message.validate
Messages == ShortMessages \cup LongMessages

\* the messages given to encodeRequest: every optional field set or unset
EncodeMessages ==
    {[Message |-> <<104, 105>>, Title |-> t, Priority |-> p, URL |-> u,
      URLTitle |-> ut, Timestamp |-> ts, Retry |-> re, Expire |-> ex,
      CallbackURL |-> cb, DeviceName |-> d, Sound |-> so, HTML |-> h,
      AttachmentPath |-> a] :
        t \in {<<>>, <<84>>}, p \in {PriorityLow, PriorityNormal, PriorityEmergency},
        u \in {<<>>, <<104, 116, 116, 112>>}, ut \in {<<>>, <<71>>},
        ts \in {0, 1424305421}, re \in {0, 60000, 1500},
        ex \in {0, 3600000}, cb \in {<<>>, <<99, 98>>},
        d \in {<<>>, <<100, 101, 118>>},
        so \in {<<>>, <<99, 111, 115, 109, 105, 99>>}, h \in BOOLEAN,
        a \in {<<>>, <<115>>}}
    \cup {ZeroMessage}

\* the messages given to SendMessage and, as field maps, to
\* multipartRequest: plain, with a title and emergency fields, with an
\* attachment (a small file, no such file, a file that is too large, a
\* directory), and the empty message
SendMessages ==
    {NewMessage(<<104, 105>>),
     [NewMessageWithTitle(<<104, 105>>, <<84>>) EXCEPT
        !.Priority = PriorityEmergency, !.Retry = 60000, !.Expire = 3600000],
     [NewMessage(<<104, 105>>) EXCEPT !.AttachmentPath = <<115>>],
     [NewMessageWithTitle(<<104, 105>>, <<84>>) EXCEPT !.AttachmentPath = <<115>>,
        !.HTML = TRUE],
     [NewMessage(<<104, 105>>) EXCEPT !.AttachmentPath = <<109>>],
     [NewMessage(<<104, 105>>) EXCEPT !.AttachmentPath = <<98>>],
     [NewMessage(<<104, 105>>) EXCEPT !.AttachmentPath = <<100>>],
     ZeroMessage}

\* the status codes of the responses: success, the last code below 500, 500
\* and a code above
StatusCodes == {200, 499, 500, 503}

\* the bodies answered for a Response: not JSON at all, or an object with
\* status 1 (with and without receipt), with status 0 (with errors, with an
\* empty list, without list), with another status, without status
ResponseBodies ==
    {[kind |-> "empty", obj |-> <<>>], [kind |-> "malformed", obj |-> <<>>],
     [kind |-> "null", obj |-> <<>>]}
    \cup {[kind |-> "object", obj |-> o] :
            o \in {[status |-> 1, request |-> "e460"],
                   [status |-> 1, request |-> "e460", receipt |-> "r1"],
                   [status |-> 0, request |-> "e460",
                    errors |-> <<"error1", "error2">>],
                   [status |-> 0, request |-> "e460", errors |-> <<>>],
                   [status |-> 0, request |-> "e460"],
                   [status |-> 2, request |-> "e460", errors |-> <<"error1">>],
                   [request |-> "e460"]}}

\* the values the server gives the three quota headers
QuotaValues == <<7500, 6000, 1393653600>>

\* the values of the n-th quota header: one integer, the integer twice, a
\* text that is no integer, a negative integer
HeaderValues(n, shape) ==
    CASE shape = "one" -> <<Itoa(QuotaValues[n])>>
      [] shape = "two" -> <<Itoa(QuotaValues[n]), Itoa(QuotaValues[n])>>
      [] shape = "text" -> <<<<55, 120>>>>
      [] shape = "negative" -> <<Itoa(0 - QuotaValues[n])>>

\* the header with the n-th quota header of shape shapes[n], or without it
QuotaHeader(shapes) ==
    [h \in {headersStrings[n] : n \in {k \in 1..3 : shapes[k] # "absent"}} |->
        HeaderValues(CHOOSE n \in 1..3 : headersStrings[n] = h,
                     shapes[CHOOSE n \in 1..3 : headersStrings[n] = h])]

\* the headers answered to SendMessage: each quota header absent, single,
\* double or no integer, in every combination, and each one negative
SendHeaders ==
    {QuotaHeader(sh) : sh \in [1..3 -> {"one", "absent", "two", "text"}]}
    \cup {QuotaHeader([k \in 1..3 |-> IF k = n THEN "negative" ELSE "one"]) :
            n \in 1..3}

\* the exchange failed: client.Do returned an error
FailedExchange == [NoResponse EXCEPT !.Failed = TRUE]

\* the outcomes of the exchange of SendMessage
SendOutcomes ==
    {FailedExchange}
    \cup {[Failed |-> FALSE, StatusCode |-> c, Body |-> b, Header |-> h] :
            c \in StatusCodes, b \in ResponseBodies, h \in SendHeaders}

\* the headers answered to the other calls: no quota header, all three, and
\* all but the last
OtherHeaders ==
    {QuotaHeader(<<"absent", "absent", "absent">>),
     QuotaHeader(<<"one", "one", "one">>), QuotaHeader(<<"one", "one", "absent">>)}

\* the outcomes of the exchange of the calls that answer a Response
OtherOutcomes ==
    {FailedExchange}
    \cup {[Failed |-> FALSE, StatusCode |-> c, Body |-> b, Header |-> h] :
            c \in StatusCodes, b \in ResponseBodies, h \in OtherHeaders}

\* the bodies answered for a RecipientDetails: status 1 with devices, status
\* 0 with and without errors, no status
RecipientBodies ==
    {[kind |-> "empty", obj |-> <<>>], [kind |-> "malformed", obj |-> <<>>],
     [kind |-> "null", obj |-> <<>>]}
    \cup {[kind |-> "object", obj |-> o] :
            o \in {[status |-> 1, request |-> "e460"],
                   [status |-> 1, request |-> "e460", group |-> 1,
                    devices |-> <<"d1", "d2">>],
                   [status |-> 0, request |-> "e460"],
                   [status |-> 0, request |-> "e460",
                    errors |-> <<"user key is invalid">>],
                   [status |-> 0, request |-> "e460", errors |-> <<>>],
                   [request |-> "e460"]}}

\* the outcomes of the exchange of GetRecipientDetails
RecipientOutcomes ==
    {FailedExchange}
    \cup {[Failed |-> FALSE, StatusCode |-> c, Body |-> b, Header |-> h] :
            c \in StatusCodes, b \in RecipientBodies, h \in OtherHeaders}

\* the integers the server gives a flag and an instant of a receipt
FlagValues == {0, 1, 2, -1}
TimeValues == {0, 1424305421, -1}

\* a receipt object with the flags f and the instants t
ReceiptObject(f, t) ==
    [status |-> 1, request |-> "e95f", acknowledged_by |-> "uYWt",
     acknowledged |-> f[1], expired |-> f[2], called_back |-> f[3],
     acknowledged_at |-> t[1], last_delivered_at |-> t[2], expires_at |-> t[3],
     called_back_at |-> t[4]]

\* the bodies answered for a ReceiptDetails: every combination of the flags
\* with the instants of the test, every combination of the instants with the
\* flags of the test, a receipt of status 0, and receipts without one of the
\* instants, without the flags
ReceiptBodies ==
    {[kind |-> "empty", obj |-> <<>>], [kind |-> "malformed", obj |-> <<>>],
     [kind |-> "null", obj |-> <<>>]}
    \cup {[kind |-> "object", obj |-> o] :
            o \in {ReceiptObject(f, <<1424305421, 1424305379, 1424308979, 0>>) :
                        f \in [1..3 -> FlagValues]}
                  \cup {ReceiptObject(<<1, 1, 0>>, t) : t \in [1..4 -> TimeValues]}
                  \cup {[ReceiptObject(<<0, 0, 0>>, <<0, 0, 0, 0>>) EXCEPT
                            !.status = 0]}
                  \cup {Delete(ReceiptObject(<<1, 0, 0>>, <<1424305421, 0, 0, 0>>), k) :
                            k \in {receiptTimes[n] : n \in 1..4}}
                  \cup {[status |-> 1, request |-> "e95f", acknowledged_at |-> 0,
                         last_delivered_at |-> 0, expires_at |-> 0,
                         called_back_at |-> 0]}}

\* the outcomes of the exchange of GetReceiptDetails
ReceiptOutcomes ==
    {FailedExchange}
    \cup {[Failed |-> FALSE, StatusCode |-> c, Body |-> b, Header |-> <<>>] :
            c \in StatusCodes, b \in ReceiptBodies}

\* the receipts given to the calls: "" and "r1"
Receipts == {<<>>, <<114, 49>>}

\* the glances given to Glance.send: a title, every field, a negative count
Glances ==
    {[Title |-> <<84>>, Text |-> <<>>, Subtext |-> <<>>, Count |-> 0,
      Percent |-> 0, DeviceName |-> <<>>],
     [Title |-> <<84>>, Text |-> <<116>>, Subtext |-> <<115>>, Count |-> 10,
      Percent |-> 15, DeviceName |-> <<100, 101, 118>>],
     [Title |-> <<>>, Text |-> <<>>, Subtext |-> <<>>, Count |-> -1,
      Percent |-> 0, DeviceName |-> <<>>]}

\* the glances given to SendGlanceUpdate: those given to Glance.send, the
\* empty update, a title that is too long, a percent out of range
UpdateGlances ==
    Glances
    \cup {ZeroGlance,
          [ZeroGlance EXCEPT !.Title = Rep(97, GlancesMessageMaxTitleLength + 1)],
          [ZeroGlance EXCEPT !.Count = 3, !.Percent = 101]}

\* the title, text or subtext of a glance: "", one letter, and the strings of
\* max and max+1 two-byte letters
GlanceStrings(max) == {<<>>, <<84>>, Rep(233, max), Rep(233, max + 1)}

\* the device names of a glance: "", one name, a list of two names, a list
\* with an empty element, a list with a wrong character, a name that is too
\* long
GlanceDeviceNames ==
    {<<>>, <<100, 101, 118>>, <<97, 44, 98>>, <<97, 44, 44, 98>>,
     <<97, 44, 33>>, Rep(97, 26)}

\* the bare URLs given to multipartRequest beside the one SendMessage
\* builds: one that does not parse
MalformedURLs == {<<":", "/messages.json">>}

\* the glances given to Glance.validate
ValidateGlances ==
    {[Title |-> t, Text |-> x, Subtext |-> st, Count |-> c, Percent |-> p,
      DeviceName |-> d] :
        t \in GlanceStrings(GlancesMessageMaxTitleLength),
        x \in GlanceStrings(GlancesMessageMaxTextLength) \ {<<84>>},
        st \in GlanceStrings(GlancesMessageMaxSubtextLength) \ {<<84>>},
        c \in {0, 3}, p \in {-1, 0, 100, 101}, d \in GlanceDeviceNames}

\* the goroutines that share the client
Goroutines == {"g1", "g2"}

\* a goroutine that is in no call
IdleCall ==
    [pc |-> "idle", op |-> "none", msg |-> ZeroMessage, url |-> <<>>,
     params |-> NilMap, req |-> NoRequest, sent |-> 0, err |-> "nil"]

-----------------------------------------------------------------------------
(* The calls *)

Init ==
    /\ token \in Tokens
    /\ fs = (<<115>> :> 16) @@ (<<98>> :> MessageMaxAttachementByte + 1)
            @@ (<<100>> :> 4096)
    /\ APIEndpoint = "https://api.pushover.net/1"
    /\ calls = [g \in Goroutines |-> IdleCall]
    /\ pc = "idle"
    /\ op = "none"
    /\ msg = ZeroMessage
    /\ rcpt = <<>>
    /\ err = "nil"
    /\ params = NilMap
    /\ req = NoRequest
    /\ sent = 0
    /\ resp = NoResponse
    /\ decoded = FALSE
    /\ result = NilResult
    /\ errors = <<>>
    /\ receipt = <<>>
    /\ glance = ZeroGlance
    /\ openFiles = 0
    /\ openBodies = 0

\* message.validate()
CallMessageValidate ==
    /\ pc = "idle"
    /\ \E m \in Messages :
        /\ msg' = m
        /\ err' = MessageValidate(m, fs)
    /\ op' = "Message.validate"
    /\ pc' = "done"
    /\ UNCHANGED <<token, APIEndpoint, calls, fs, rcpt, params>>
    /\ UNCHANGED httpVars
    /\ UNCHANGED argVars

\* p.validate()
CallPushoverValidate ==
    /\ pc = "idle"
    /\ err' = PushoverValidate(token)
    /\ op' = "Pushover.validate"
    /\ pc' = "done"
    /\ UNCHANGED <<token, APIEndpoint, calls, fs, msg, rcpt, params>>
    /\ UNCHANGED httpVars
    /\ UNCHANGED argVars

\* NewRecipient(r).validate()
CallRecipientValidate ==
    /\ pc = "idle"
    /\ \E r \in Tokens :
        /\ rcpt' = r
        /\ err' = RecipientValidate(r)
    /\ op' = "Recipient.validate"
    /\ pc' = "done"
    /\ UNCHANGED <<token, APIEndpoint, calls, fs, msg, params>>
    /\ UNCHANGED httpVars
    /\ UNCHANGED argVars

\* p.encodeRequest(message, NewRecipient(r))
CallEncodeRequest ==
    /\ pc = "idle"
    /\ \E m \in EncodeMessages, r \in EncodeRecipients :
        LET res == encodeRequest(token, m, r, fs)
        IN  /\ msg' = m
            /\ rcpt' = r
            /\ err' = res.err
            /\ params' = res.params
    /\ op' = "encodeRequest"
    /\ pc' = "done"
    /\ UNCHANGED <<token, APIEndpoint, calls, fs>>
    /\ UNCHANGED httpVars
    /\ UNCHANGED argVars

\* the variables of the HTTP exchange after a call that left o
Leave(o) ==
    /\ req' = o.req
    /\ sent' = o.sent
    /\ resp' = o.resp
    /\ decoded' = o.decoded
    /\ result' = o.result
    /\ err' = o.err
    /\ errors' = o.errors
    /\ openFiles' = o.openFiles
    /\ openBodies' = o.openBodies

\* p.SendMessage(message, NewRecipient(r)).  A call that returns before it
\* sends a request has no exchange: the outcomes of the exchange are then not
\* told apart (here and in the calls below).
CallSendMessage ==
    /\ pc = "idle"
    /\ \E m \in SendMessages, r \in EncodeRecipients, srv \in SendOutcomes :
        LET o == SendMessage(token, m, r, fs, srv)
        IN  /\ o.sent = 0 => srv = FailedExchange
            /\ msg' = m
            /\ rcpt' = r
            /\ Leave(o)
    /\ op' = "SendMessage"
    /\ pc' = "done"
    /\ UNCHANGED <<token, APIEndpoint, calls, fs, params>>
    /\ UNCHANGED argVars

\* multipartRequest("POST", url, params) on the field map of a message, url
\* being the one SendMessage builds or one that does not parse; the map of
\* the caller loses its attachment_path
CallMultipartRequest ==
    /\ pc = "idle"
    /\ \E m \in SendMessages,
          url \in {<<APIEndpoint, "/messages.json">>} \cup MalformedURLs :
        LET ps == ("token" :> token) @@ ("user" :> Rep(97, 30)) @@ toMap(m)
            mp == multipartRequest("POST", url, ps, fs)
        IN  /\ msg' = m
            /\ params' = Delete(ps, "attachment_path")
            /\ req' = mp.req
            /\ err' = mp.err
            /\ openFiles' = mp.open
    /\ op' = "multipartRequest"
    /\ pc' = "done"
    /\ UNCHANGED <<token, APIEndpoint, calls, fs, rcpt, sent, resp, decoded,
                   result, errors, openBodies>>
    /\ UNCHANGED argVars

\* glance.validate()
CallGlanceValidate ==
    /\ pc = "idle"
    /\ \E m \in ValidateGlances :
        /\ glance' = m
        /\ err' = GlanceValidate(m)
    /\ op' = "Glance.validate"
    /\ pc' = "done"
    /\ UNCHANGED <<token, APIEndpoint, calls, fs, msg, rcpt, params, receipt>>
    /\ UNCHANGED httpVars

\* glance.send(p.token, r)
CallGlanceSend ==
    /\ pc = "idle"
    /\ \E m \in Glances, r \in EncodeRecipients, srv \in OtherOutcomes :
        /\ glance' = m
        /\ rcpt' = r
        /\ Leave(GlanceSend(m, token, r, srv))
    /\ op' = "Glance.send"
    /\ pc' = "done"
    /\ UNCHANGED <<token, APIEndpoint, calls, fs, msg, params, receipt>>

\* p.SendGlanceUpdate(glance, NewRecipient(r))
CallSendGlanceUpdate ==
    /\ pc = "idle"
    /\ \E m \in UpdateGlances, r \in EncodeRecipients, srv \in OtherOutcomes :
        LET o == SendGlanceUpdate(token, m, r, srv)
        IN  /\ o.sent = 0 => srv = FailedExchange
            /\ glance' = m
            /\ rcpt' = r
            /\ Leave(o)
    /\ op' = "SendGlanceUpdate"
    /\ pc' = "done"
    /\ UNCHANGED <<token, APIEndpoint, calls, fs, msg, params, receipt>>

\* p.GetRecipientDetails(NewRecipient(r))
CallGetRecipientDetails ==
    /\ pc = "idle"
    /\ \E r \in EncodeRecipients, srv \in RecipientOutcomes :
        LET o == GetRecipientDetails(token, r, srv)
        IN  /\ o.sent = 0 => srv = FailedExchange
            /\ rcpt' = r
            /\ Leave(o)
    /\ op' = "GetRecipientDetails"
    /\ pc' = "done"
    /\ UNCHANGED <<token, APIEndpoint, calls, fs, msg, params>>
    /\ UNCHANGED argVars

\* p.GetReceiptDetails(receipt)
CallGetReceiptDetails ==
    /\ pc = "idle"
    /\ \E rcp \in Receipts, srv \in ReceiptOutcomes :
        LET o == GetReceiptDetails(token, rcp, srv)
        IN  /\ o.sent = 0 => srv = FailedExchange
            /\ receipt' = rcp
            /\ Leave(o)
    /\ op' = "GetReceiptDetails"
    /\ pc' = "done"
    /\ UNCHANGED <<token, APIEndpoint, calls, fs, msg, rcpt, params, glance>>

\* p.CancelEmergencyNotification(receipt)
CallCancelEmergencyNotification ==
    /\ pc = "idle"
    /\ \E rcp \in Receipts, srv \in OtherOutcomes :
        /\ receipt' = rcp
        /\ Leave(CancelEmergencyNotification(token, rcp, srv))
    /\ op' = "CancelEmergencyNotification"
    /\ pc' = "done"
    /\ UNCHANGED <<token, APIEndpoint, calls, fs, msg, rcpt, params, glance>>

\* the caller drops the results of the call and goes on
Return ==
    /\ pc = "done"
    /\ pc' = "idle"
    /\ op' = "none"
    /\ msg' = ZeroMessage
    /\ rcpt' = <<>>
    /\ err' = "nil"
    /\ params' = NilMap
    /\ req' = NoRequest
    /\ sent' = 0
    /\ resp' = NoResponse
    /\ decoded' = FALSE
    /\ result' = NilResult
    /\ errors' = <<>>
    /\ receipt' = <<>>
    /\ glance' = ZeroGlance
    /\ openFiles' = 0
    /\ openBodies' = 0
    /\ UNCHANGED <<token, APIEndpoint, calls, fs>>

Next ==
    \/ CallMessageValidate
    \/ CallPushoverValidate
    \/ CallRecipientValidate
    \/ CallEncodeRequest
    \/ CallSendMessage
    \/ CallMultipartRequest
    \/ CallGlanceValidate
    \/ CallGlanceSend
    \/ CallSendGlanceUpdate
    \/ CallGetRecipientDetails
    \/ CallGetReceiptDetails
    \/ CallCancelEmergencyNotification
    \/ Return

Spec == Init /\ [][Next]_vars

-----------------------------------------------------------------------------
(* Concurrent calls on one client *)

\* The goroutines of the caller share one *Pushover, the package variable
\* APIEndpoint and the file system.  A call reads the token and APIEndpoint
\* when it builds its URL and its fields; SendMessage reads the attachment
\* twice, os.Stat in Message.validate and os.Open/io.Copy in
\* multipartRequest, and another process may write the file in between.

\* the variables of the sequential calls, left alone here
seqVars ==
    <<pc, op, msg, rcpt, err, params, req, sent, resp, decoded, result, errors,
      receipt, glance, openFiles, openBodies>>

\* the endpoints of the service: the default one and a test server
Endpoints == {"https://api.pushover.net/1", "http://127.0.0.1:8080"}

\* the sender tokens given to New
SenderTokens == {Rep(97, 30), Rep(98, 30)}

\* the messages sent concurrently: plain, with the attachment that the
\* writer replaces, with a path that names no file
ConcurrentMessages ==
    {NewMessage(<<104, 105>>),
     [NewMessage(<<104, 105>>) EXCEPT !.AttachmentPath = <<115>>],
     [NewMessage(<<104, 105>>) EXCEPT !.AttachmentPath = <<109>>]}

\* the sizes the writer gives the attachment: small, the ceiling, one more
FileSizes == {16, MessageMaxAttachementByte, MessageMaxAttachementByte + 1}

\* the exchanges of the concurrent calls: a failure, an acceptance with its
\* quota, an error of the server
ConcurrentOutcomes ==
    {FailedExchange,
     [Failed |-> FALSE, StatusCode |-> 200,
      Body |-> [kind |-> "object", obj |-> [status |-> 1, request |-> "e95f"]],
      Header |-> QuotaHeader(<<"one", "one", "one">>)],
     [Failed |-> FALSE, StatusCode |-> 500,
      Body |-> [kind |-> "empty", obj |-> <<>>], Header |-> <<>>]}

InitC ==
    /\ token \in SenderTokens
    /\ APIEndpoint \in Endpoints
    /\ fs = (<<115>> :> 16) @@ (<<98>> :> MessageMaxAttachementByte + 1)
            @@ (<<100>> :> 4096)
    /\ calls = [g \in Goroutines |-> IdleCall]
    /\ pc = "idle"
    /\ op = "none"
    /\ msg = ZeroMessage
    /\ rcpt = <<>>
    /\ err = "nil"
    /\ params = NilMap
    /\ req = NoRequest
    /\ sent = 0
    /\ resp = NoResponse
    /\ decoded = FALSE
    /\ result = NilResult
    /\ errors = <<>>
    /\ receipt = <<>>
    /\ glance = ZeroGlance
    /\ openFiles = 0
    /\ openBodies = 0

\* variant: the call overwrites the token of the client with the recipient
BeginSendMessage_WritesToken(g) ==
    /\ calls[g].pc = "idle"
    /\ \E m \in ConcurrentMessages :
        LET url == <<APIEndpoint, "/messages.json">>
            enc == encodeRequest(token, m, Rep(97, 30), fs)
        IN  calls' = [calls EXCEPT ![g] =
                        [IdleCall EXCEPT
                            !.pc = IF enc.err # "nil" THEN "done" ELSE "encoded",
                            !.op = "SendMessage", !.msg = m, !.url = url,
                            !.params = enc.params, !.err = enc.err]]
    /\ token' = Rep(97, 30)
    /\ UNCHANGED <<APIEndpoint, fs>>
    /\ UNCHANGED seqVars

\* goroutine g enters p.SendMessage: the URL is formatted from APIEndpoint,
\* encodeRequest validates (os.Stat on the attachment) and builds the fields
BeginSendMessage(g) ==
    /\ calls[g].pc = "idle"
    /\ \E m \in ConcurrentMessages :
        LET url == <<APIEndpoint, "/messages.json">>
            enc == encodeRequest(token, m, Rep(97, 30), fs)
        IN  calls' = [calls EXCEPT ![g] =
                        [IdleCall EXCEPT
                            !.pc = IF enc.err # "nil" THEN "done" ELSE "encoded",
                            !.op = "SendMessage", !.msg = m, !.url = url,
                            !.params = enc.params, !.err = enc.err]]
    /\ UNCHANGED <<token, APIEndpoint, fs>>
    /\ UNCHANGED seqVars

\* goroutine g goes on in p.SendMessage: multipartRequest opens and copies
\* the attachment as it is now, and do sends the request
EndSendMessage(g) ==
    /\ calls[g].pc = "encoded"
    /\ \E srv \in ConcurrentOutcomes :
        LET c == calls[g]
            mp == multipartRequest("POST", c.url, c.params, fs)
            d == do(srv, "Response", TRUE)
        IN  /\ mp.err # "nil" => srv = FailedExchange
            /\ calls' = [calls EXCEPT ![g] =
                            IF mp.err # "nil"
                            THEN [c EXCEPT !.pc = "done", !.err = mp.err,
                                           !.params = Delete(c.params, "attachment_path")]
                            ELSE [c EXCEPT !.pc = "done", !.req = mp.req,
                                           !.sent = 1, !.err = d.err,
                                           !.params = Delete(c.params, "attachment_path")]]
    /\ UNCHANGED <<token, APIEndpoint, fs>>
    /\ UNCHANGED seqVars

\* goroutine g calls p.CancelEmergencyNotification(receipt)
ConcurrentCancel(g) ==
    /\ calls[g].pc = "idle"
    /\ \E srv \in ConcurrentOutcomes :
        LET o == CancelEmergencyNotification(token, <<114, 49>>, srv)
        IN  calls' = [calls EXCEPT ![g] =
                        [IdleCall EXCEPT
                            !.pc = "done", !.op = "CancelEmergencyNotification",
                            !.url = o.req.URL, !.req = o.req, !.sent = o.sent,
                            !.err = o.err]]
    /\ UNCHANGED <<token, APIEndpoint, fs>>
    /\ UNCHANGED seqVars

\* the call of goroutine g returns
EndCall(g) ==
    /\ calls[g].pc = "done"
    /\ calls' = [calls EXCEPT ![g] = IdleCall]
    /\ UNCHANGED <<token, APIEndpoint, fs>>
    /\ UNCHANGED seqVars

\* another process replaces the attachment by a file of another size
WriteFile ==
    /\ \E size \in FileSizes \ {fs[<<115>>]} :
        fs' = [fs EXCEPT ![<<115>>] = size]
    /\ UNCHANGED <<token, APIEndpoint, calls>>
    /\ UNCHANGED seqVars

NextC ==
    \/ \E g \in Goroutines : BeginSendMessage(g)
    \/ \E g \in Goroutines : EndSendMessage(g)
    \/ \E g \in Goroutines : ConcurrentCancel(g)
    \/ \E g \in Goroutines : EndCall(g)
    \/ WriteFile

SpecC == InitC /\ [][NextC]_vars

-----------------------------------------------------------------------------
(* Vocabulary of the claims *)

\* the number of Unicode code points of a string
RuneCount(s) == Len(s)

\* the elements of a comma-separated list
RECURSIVE SplitComma(_)
SplitComma(s) ==
    IF \A i \in 1..Len(s) : s[i] # 44 THEN {s}
    ELSE LET k == CHOOSE i \in 1..Len(s) :
                    s[i] = 44 /\ \A j \in 1..(i - 1) : s[j] # 44
         IN  {SubSeq(s, 1, k - 1)} \cup SplitComma(SubSeq(s, k + 1, Len(s)))

\* every element of the comma-separated list matches ^[A-Za-z0-9_-]{1,25}$
DeviceListValid(s) ==
    \A d \in SplitComma(s) :
        /\ Len(d) \in 1..25
        /\ \A i \in 1..Len(d) :
              d[i] \in (48..57) \cup (65..90) \cup (97..122) \cup {45, 95}

\* the attachment rule: the path, when given, names a file within the ceiling
AttachmentValid(m) ==
    m.AttachmentPath # <<>> =>
        /\ m.AttachmentPath \in DOMAIN fs
        /\ fs[m.AttachmentPath] <= MessageMaxAttachementByte

\* the rules on the fields other than the four measured strings
FieldRulesHold(m) ==
    /\ m.Message # <<>>
    /\ ~(m.URL = <<>> /\ m.URLTitle # <<>>)
    /\ m.Priority \in PriorityLowest..PriorityEmergency
    /\ (m.Priority = PriorityEmergency => m.Retry # 0 /\ m.Expire # 0)
    /\ (m.DeviceName # <<>> => DeviceListValid(m.DeviceName))
    /\ AttachmentValid(m)

\* a measured field at exactly max code points is accepted, at max+1 it is
\* rejected with its own error e, when no other rule is violated
BoundaryLaw(m, field, max, e, others) ==
    (FieldRulesHold(m) /\ \A o \in others : RuneCount(m[o[1]]) <= o[2]) =>
        /\ (RuneCount(m[field]) = max => err = "nil")
        /\ (RuneCount(m[field]) = max + 1 => err = e)

\* C1: Message.validate measures Message, Title, URL and URLTitle in code
\* points: with every other rule satisfied, each of the four fields is
\* accepted at exactly its maximum number of code points (1024, 250, 512,
\* 100), multi-byte characters included, and rejected with its own error at
\* maximum+1 code points.
C1_CodePointLimits ==
    op = "Message.validate" =>
        LET limits == {<<"Message", MessageMaxLength>>,
                       <<"Title", MessageTitleMaxLength>>,
                       <<"URL", MessageURLMaxLength>>,
                       <<"URLTitle", MessageURLTitleMaxLength>>}
        IN  /\ BoundaryLaw(msg, "Message", MessageMaxLength, "ErrMessageTooLong",
                           limits \ {<<"Message", MessageMaxLength>>})
            /\ BoundaryLaw(msg, "Title", MessageTitleMaxLength,
                           "ErrMessageTitleTooLong",
                           limits \ {<<"Title", MessageTitleMaxLength>>})
            /\ BoundaryLaw(msg, "URL", MessageURLMaxLength, "ErrMessageURLTooLong",
                           limits \ {<<"URL", MessageURLMaxLength>>})
            /\ BoundaryLaw(msg, "URLTitle", MessageURLTitleMaxLength,
                           "ErrMessageURLTitleTooLong",
                           limits \ {<<"URLTitle", MessageURLTitleMaxLength>>})

\* the rules of Message.validate in the order of the claim, each as
\* validate evaluates it: rule i is violated by m
Violates(i, m) ==
    CASE i = 1 -> m.Message = <<>>
      [] i = 2 -> ByteLen(m.Message) > MessageMaxLength
      [] i = 3 -> ByteLen(m.Title) > MessageTitleMaxLength
      [] i = 4 -> ByteLen(m.URL) > MessageURLMaxLength
      [] i = 5 -> ByteLen(m.URLTitle) > MessageURLTitleMaxLength
      [] i = 6 -> m.URL = <<>> /\ m.URLTitle # <<>>
      [] i = 7 -> m.Priority \notin PriorityLowest..PriorityEmergency
      [] i = 8 -> m.Priority = PriorityEmergency /\ (m.Retry = 0 \/ m.Expire = 0)
      [] i = 9 -> m.DeviceName # <<>> /\ ~DeviceNameMatch(m.DeviceName)
      [] i = 10 -> ~AttachmentValid(m)

\* the errors of rule i
RuleErrors(i) ==
    CASE i = 1 -> {"ErrMessageEmpty"}
      [] i = 2 -> {"ErrMessageTooLong"}
      [] i = 3 -> {"ErrMessageTitleTooLong"}
      [] i = 4 -> {"ErrMessageURLTooLong"}
      [] i = 5 -> {"ErrMessageURLTitleTooLong"}
      [] i = 6 -> {"ErrEmptyURL"}
      [] i = 7 -> {"ErrInvalidPriority"}
      [] i = 8 -> {"ErrMissingEmergencyParameter"}
      [] i = 9 -> {"ErrInvalidDeviceName"}
      [] i = 10 -> {"ErrInvalidAttachementPath", "ErrMessageAttachementTooLarge"}

\* the rules m violates
Violated(m) == {i \in 1..10 : Violates(i, m)}

\* C2: Message.validate reports only the first violated rule, in the order
\* empty body, body too long, title too long, URL too long, URL title too
\* long, URL title without URL, priority out of range, emergency priority
\* without retry/expire, invalid device name, attachment check: the error is
\* the one of the earliest rule the message violates, and nil when it
\* violates none.
C2_FirstViolatedRule ==
    op = "Message.validate" =>
        LET v == Violated(msg)
        IN  IF v = {} THEN err = "nil"
            ELSE \E i \in v :
                    /\ \A j \in v : i <= j
                    /\ err \in RuleErrors(i)

\* C2 witness: a message violating three rules at once was validated and the
\* error of the earliest one came back
C2_Witness ==
    /\ op = "Message.validate"
    /\ msg.Message = <<104, 105>>
    /\ Violated(msg) = {6, 7, 9}
    /\ err = "ErrEmptyURL"

\* C3 as stated: a URLTitle without URL gives ErrEmptyURL whatever the
\* other fields are
C3_Original ==
    (op = "Message.validate" /\ msg.URLTitle # <<>> /\ msg.URL = <<>>) =>
        err = "ErrEmptyURL"

\* C3 amended: a URLTitle without URL gives ErrEmptyURL whenever the body is
\* not empty and the body, the title and the URL title are within the limits
\* validate enforces (1024, 250 and 100 bytes), whatever the priority, retry,
\* expire, device name, attachment and the other fields are.
C3_EmptyURL ==
    (/\ op = "Message.validate"
     /\ msg.URLTitle # <<>> /\ msg.URL = <<>>
     /\ msg.Message # <<>>
     /\ ByteLen(msg.Message) <= MessageMaxLength
     /\ ByteLen(msg.Title) <= MessageTitleMaxLength
     /\ ByteLen(msg.URLTitle) <= MessageURLTitleMaxLength) =>
        err = "ErrEmptyURL"

\* C3 witness: ErrEmptyURL came back for a message whose priority, emergency
\* parameters, device name and attachment are all invalid too
C3_Witness ==
    /\ op = "Message.validate"
    /\ msg.URLTitle # <<>> /\ msg.URL = <<>>
    /\ msg.Priority > PriorityEmergency
    /\ msg.DeviceName # <<>> /\ ~DeviceListValid(msg.DeviceName)
    /\ ~AttachmentValid(msg)
    /\ err = "ErrEmptyURL"

\* the message passes the body, length and URL checks of validate
PassesBodyLengthURL(m) == \A i \in 1..6 : ~Violates(i, m)

\* C4: for a message of emergency priority that passes the earlier checks,
\* validate returns ErrMissingEmergencyParameter whenever Retry or Expire is
\* zero, and never when both are positive.
C4_EmergencyParameters ==
    (op = "Message.validate" /\ msg.Priority = PriorityEmergency
        /\ PassesBodyLengthURL(msg)) =>
        /\ (msg.Retry = 0 \/ msg.Expire = 0) => err = "ErrMissingEmergencyParameter"
        /\ (msg.Retry > 0 /\ msg.Expire > 0) => err # "ErrMissingEmergencyParameter"

\* C4 witness: an emergency message with Retry set and Expire zero was
\* rejected for the missing parameter
C4_Witness ==
    /\ op = "Message.validate"
    /\ msg.Priority = PriorityEmergency
    /\ msg.Retry > 0 /\ msg.Expire = 0
    /\ err = "ErrMissingEmergencyParameter"

\* C5: for a message that passes the body, length and URL checks, validate
\* returns ErrInvalidPriority for every priority outside [-2, 2] and never
\* for -2, -1, 0, 1, 2.
C5_PriorityRange ==
    (op = "Message.validate" /\ PassesBodyLengthURL(msg)) =>
        (err = "ErrInvalidPriority" <=> msg.Priority \notin {-2, -1, 0, 1, 2})

\* C5 witness: the priority just below the range was rejected
C5_Witness ==
    /\ op = "Message.validate"
    /\ msg.Priority = -3
    /\ err = "ErrInvalidPriority"

\* the message violates no rule that validate checks before the device name
PassesBeforeDeviceName(m) == \A i \in 1..8 : ~Violates(i, m)

\* C6: Message.validate treats a non-empty DeviceName as a comma-separated
\* list: when every element matches ^[A-Za-z0-9_-]{1,25}$ the name is
\* accepted (two valid names joined by a comma pass), and when at least one
\* element does not match the error is ErrInvalidDeviceName.
C6_DeviceNameList ==
    (op = "Message.validate" /\ msg.DeviceName # <<>>
        /\ PassesBeforeDeviceName(msg)) =>
        IF DeviceListValid(msg.DeviceName)
        THEN err # "ErrInvalidDeviceName"
        ELSE err = "ErrInvalidDeviceName"

\* the characters A-Z, a-z, 0-9
Alphanumerics == (48..57) \cup (65..90) \cup (97..122)

\* exactly 30 characters, each in A-Z, a-z, 0-9
TokenShape(t) == Len(t) = 30 /\ \A i \in 1..Len(t) : t[i] \in Alphanumerics

\* C7: Pushover.validate and Recipient.validate apply the same shape rule
\* (exactly 30 characters, each in A-Z, a-z, 0-9) and report distinct
\* errors: an empty token gives ErrEmptyToken, respectively
\* ErrEmptyRecipientToken; a non-empty token of another shape gives
\* ErrInvalidToken, respectively ErrInvalidRecipientToken; a token of the
\* right shape gives no error.
C7_TokenShape ==
    /\ op = "Pushover.validate" =>
          err = IF token = <<>> THEN "ErrEmptyToken"
                ELSE IF TokenShape(token) THEN "nil" ELSE "ErrInvalidToken"
    /\ op = "Recipient.validate" =>
          err = IF rcpt = <<>> THEN "ErrEmptyRecipientToken"
                ELSE IF TokenShape(rcpt) THEN "nil"
                ELSE "ErrInvalidRecipientToken"

\* C7 witness: a recipient token of 30 characters, one of them a hyphen, was
\* rejected as an invalid recipient token
C7_Witness ==
    /\ op = "Recipient.validate"
    /\ Len(rcpt) = 30
    /\ \E i \in 1..Len(rcpt) : rcpt[i] = 45
    /\ err = "ErrInvalidRecipientToken"

\* C8: Pushover.encodeRequest validates the sender token, then the recipient
\* token, then the message, and stops at the first failure: the error is the
\* sender-token error if the sender token is invalid, else the
\* recipient-token error if the recipient token is invalid, else the message
\* error; on any failure no field map is returned.
C8_EncodeOrder ==
    op = "encodeRequest" =>
        /\ err = IF ~TokenShape(token) THEN PushoverValidate(token)
                 ELSE IF ~TokenShape(rcpt) THEN RecipientValidate(rcpt)
                 ELSE MessageValidate(msg, fs)
        /\ (~TokenShape(token) => err \in {"ErrEmptyToken", "ErrInvalidToken"})
        /\ ((TokenShape(token) /\ ~TokenShape(rcpt)) =>
                err \in {"ErrEmptyRecipientToken", "ErrInvalidRecipientToken"})
        /\ (err # "nil" => params = NilMap)
        /\ (err = "nil" => params # NilMap)

\* C8 witness: the sender token, the recipient token and the message were all
\* invalid, the sender-token error came back and no map
C8_Witness ==
    /\ op = "encodeRequest"
    /\ ~TokenShape(token) /\ token # <<>>
    /\ ~TokenShape(rcpt)
    /\ MessageValidate(msg, fs) # "nil"
    /\ err = "ErrInvalidToken"
    /\ params = NilMap

\* the keys every field map holds
RequiredKeys == {"token", "user", "message", "priority"}

\* the wire names of the optional fields of m that have a non-default value
NonDefaultKeys(m) ==
    {k \in {"title", "url", "url_title", "sound", "device", "timestamp", "html",
            "callback", "retry", "expire"} :
        CASE k = "title" -> m.Title # <<>>
          [] k = "url" -> m.URL # <<>>
          [] k = "url_title" -> m.URLTitle # <<>>
          [] k = "sound" -> m.Sound # <<>>
          [] k = "device" -> m.DeviceName # <<>>
          [] k = "timestamp" -> m.Timestamp # 0
          [] k = "html" -> m.HTML
          [] k = "callback" -> m.CallbackURL # <<>>
          [] k = "retry" -> m.Retry # 0
          [] k = "expire" -> m.Expire # 0}

\* C9 as stated: the key set is the required keys plus the wire name of
\* every optional field with a non-default value, and nothing else
C9_Original ==
    (op = "encodeRequest" /\ err = "nil") =>
        DOMAIN params = RequiredKeys \cup NonDefaultKeys(msg)

\* the keys of the field map of a valid message m
ExpectedKeys(m) ==
    RequiredKeys
    \cup (NonDefaultKeys(m) \ {"callback", "retry", "expire"})
    \cup (IF m.Priority = PriorityEmergency THEN {"retry", "expire"} ELSE {})
    \cup (IF m.Priority = PriorityEmergency /\ m.CallbackURL # <<>>
          THEN {"callback"} ELSE {})
    \cup (IF m.AttachmentPath # <<>> THEN {"attachment_path"} ELSE {})

\* C9 amended: for every valid message and valid tokens the key set of the
\* field map of encodeRequest is exactly {token, user, message, priority},
\* plus title, url, url_title, sound, device, timestamp, html each if and
\* only if its field has a non-default value, plus retry and expire if and
\* only if the priority is emergency, plus callback if and only if the
\* priority is emergency and CallbackURL is not empty, plus the key
\* attachment_path if and only if AttachmentPath is not empty.
C9_FieldMapKeys ==
    (op = "encodeRequest" /\ err = "nil") => DOMAIN params = ExpectedKeys(msg)

\* C9 witness: a valid message with some optional fields set and the others
\* unset was encoded
C9_Witness ==
    /\ op = "encodeRequest" /\ err = "nil"
    /\ msg.Title = <<>> /\ msg.Sound # <<>> /\ msg.Timestamp = 0 /\ msg.HTML
    /\ msg.Priority = PriorityNormal /\ msg.Retry # 0 /\ msg.CallbackURL # <<>>
    /\ msg.AttachmentPath # <<>>
    /\ DOMAIN params = RequiredKeys \cup {"sound", "html", "attachment_path"}

\* s is a decimal integer: an optional minus sign, then digits alone
IsDecimal(s) ==
    /\ Len(s) > 0
    /\ \A i \in 1..Len(s) : s[i] \in 48..57 \/ (i = 1 /\ s[i] = 45 /\ Len(s) > 1)

\* the value of a string of digits
RECURSIVE DigitsValue(_)
DigitsValue(s) ==
    IF Len(s) = 0 THEN 0
    ELSE 10 * DigitsValue(SubSeq(s, 1, Len(s) - 1)) + (s[Len(s)] - 48)

\* the value of a decimal integer
DecimalValue(s) ==
    IF s[1] = 45 THEN 0 - DigitsValue(Tail(s)) ELSE DigitsValue(s)

\* v is the duration d, of a whole number of seconds, in plain decimal seconds
PlainSeconds(v, d) ==
    d % 1000 = 0 /\ IsDecimal(v) /\ DecimalValue(v) = d \div 1000

\* C10: in the field map of encodeRequest priority is always present as the
\* decimal value of Priority; retry and expire are present if and only if
\* the priority is emergency, and then hold Retry and Expire as plain
\* decimal seconds (60s gives "60", 3600s gives "3600"); callback is absent
\* when no CallbackURL was supplied.
C10_EmergencyFields ==
    (op = "encodeRequest" /\ err = "nil") =>
        /\ "priority" \in DOMAIN params
        /\ IsDecimal(params["priority"])
        /\ DecimalValue(params["priority"]) = msg.Priority
        /\ "retry" \in DOMAIN params <=> msg.Priority = PriorityEmergency
        /\ "expire" \in DOMAIN params <=> msg.Priority = PriorityEmergency
        /\ msg.Priority = PriorityEmergency =>
              /\ msg.Retry % 1000 = 0 => PlainSeconds(params["retry"], msg.Retry)
              /\ msg.Expire % 1000 = 0 => PlainSeconds(params["expire"], msg.Expire)
              /\ msg.Retry = 60000 => params["retry"] = <<54, 48>>
              /\ msg.Expire = 3600000 => params["expire"] = <<51, 54, 48, 48>>
        /\ msg.CallbackURL = <<>> => "callback" \notin DOMAIN params

\* C10 witness: an emergency message with Retry 60s, Expire 3600s and no
\* CallbackURL was encoded to priority "2", retry "60", expire "3600"
C10_Witness ==
    /\ op = "encodeRequest" /\ err = "nil"
    /\ msg.Priority = PriorityEmergency
    /\ msg.Retry = 60000 /\ msg.Expire = 3600000 /\ msg.CallbackURL = <<>>
    /\ params["priority"] = <<50>>
    /\ params["retry"] = <<54, 48>>
    /\ params["expire"] = <<51, 54, 48, 48>>
    /\ "callback" \notin DOMAIN params

-----------------------------------------------------------------------------
(* The claims about requests and responses *)

\* C11: SendMessage chooses the wire encoding by attachment presence: the
\* request of a message without attachment is
\* application/x-www-form-urlencoded, and a request is multipart/form-data
\* only when its message carries an attachment.
C11_WireEncoding ==
    (pc = "done" /\ op = "SendMessage" /\ sent = 1) =>
        /\ msg.AttachmentPath = <<>> =>
            req.ContentType = "application/x-www-form-urlencoded"
        /\ req.ContentType = "multipart/form-data" => msg.AttachmentPath # <<>>

\* C12: the multipart request built for a message with an attachment holds
\* exactly one file part, of field name "attachment" and file name
\* "attachment", whose size is the size of the attached file, and its form
\* fields are exactly token, user, message, priority and the non-default
\* optional fields of the message, with their values.
C12_MultipartParts ==
    (pc = "done" /\ op \in {"multipartRequest", "SendMessage"}
     /\ msg.AttachmentPath # <<>> /\ req # NoRequest) =>
        /\ Len(req.Files) = 1
        /\ req.Files[1].FieldName = "attachment"
        /\ req.Files[1].FileName = "attachment"
        /\ req.Files[1].Size = Stat(fs, msg.AttachmentPath)
        /\ DOMAIN req.Fields = RequiredKeys \cup NonDefaultKeys(msg)
        /\ req.Fields["token"] = token
        /\ req.Fields["message"] = msg.Message

\* C13: building a multipart request for a message without attachment fails
\* with ErrMissingAttachment and gives no request; building one for an
\* attachment above the maximum size fails with the too-large error and
\* gives no request.
C13_AttachmentErrors ==
    (pc = "done" /\ op = "multipartRequest") =>
        /\ msg.AttachmentPath = <<>> =>
            (err = "ErrMissingAttachment" /\ req = NoRequest)
        /\ Stat(fs, msg.AttachmentPath) > MessageMaxAttachementByte =>
            (err = "ErrMessageAttachementTooLarge" /\ req = NoRequest)

\* the last call received a response of the server
Answered == pc = "done" /\ sent = 1 /\ ~resp.Failed

\* the response is below 500 and its body is a JSON object
Readable == resp.StatusCode < 500 /\ resp.Body.kind = "object"

\* the status of the JSON object of the response: 0 when it has none
BodyStatus == IF "status" \in DOMAIN resp.Body.obj THEN resp.Body.obj.status ELSE 0

\* the error list of the JSON object of the response: empty when it has none
BodyErrors == IF "errors" \in DOMAIN resp.Body.obj THEN resp.Body.obj.errors ELSE <<>>

\* C14: in every operation that receives an HTTP response (SendMessage, the
\* glance update, GetRecipientDetails, GetReceiptDetails,
\* CancelEmergencyNotification) a response of status code 500 or above makes
\* the call fail with ErrHTTPPushover, and the body is not JSON-decoded.
C14_ServerErrors ==
    (Answered /\ resp.StatusCode >= 500) =>
        (err = "ErrHTTPPushover" /\ ~decoded /\ result = NilResult)

SingleInteger(h) ==
    /\ h \in DOMAIN resp.Header
    /\ Len(resp.Header[h]) = 1
    /\ IsDecimal(resp.Header[h][1])

\* the integer of the quota header named h
HeaderInteger(h) == DecimalValue(resp.Header[h][1])

\* C16: quota extraction in SendMessage is all-or-nothing: on a response of
\* status 1 with a well-formed body, SendMessage returns an error and no
\* Response if any one of X-Limit-App-Limit, X-Limit-App-Remaining,
\* X-Limit-App-Reset is missing, has more than one value or is not an
\* integer; when all three are single integers the Response carries a Limit
\* whose Total, Remaining and NextReset are those three values.
C16_QuotaAllOrNothing ==
    (Answered /\ op = "SendMessage" /\ Readable /\ BodyStatus = 1) =>
        IF \A h \in {"X-Limit-App-Limit", "X-Limit-App-Remaining",
                     "X-Limit-App-Reset"} : SingleInteger(h)
        THEN /\ err = "nil"
             /\ result.type = "Response"
             /\ result.Limit =
                    [nil |-> FALSE,
                     Total |-> HeaderInteger("X-Limit-App-Limit"),
                     Remaining |-> HeaderInteger("X-Limit-App-Remaining"),
                     NextReset |-> [unix |-> HeaderInteger("X-Limit-App-Reset")]]
        ELSE err # "nil" /\ result = NilResult

\* C16 witness: SendMessage was answered status 1 with the total and the
\* remaining count but without X-Limit-App-Reset, and failed
C16_Witness ==
    /\ Answered /\ op = "SendMessage" /\ Readable /\ BodyStatus = 1
    /\ SingleInteger("X-Limit-App-Limit") /\ SingleInteger("X-Limit-App-Remaining")
    /\ "X-Limit-App-Reset" \notin DOMAIN resp.Header
    /\ err = "ErrInvalidHeaders" /\ result = NilResult

\* the receipt of the response has its three flags in {0, 1} and its four
\* instants
PlainReceipt ==
    /\ \A n \in 1..3 : Field(resp.Body.obj, receiptFlags[n], 0) \in {0, 1}
    /\ \A n \in 1..4 : receiptTimes[n] \in DOMAIN resp.Body.obj

\* C17: only SendMessage reads the quota headers: the glance update,
\* CancelEmergencyNotification, GetRecipientDetails and GetReceiptDetails
\* succeed on a status-1 response without any X-Limit-App-* header, and their
\* result has no Limit.
C17_QuotaOnlyOnSend ==
    (Answered /\ Readable /\ BodyStatus = 1 /\ DOMAIN resp.Header = {}
     /\ op \in {"Glance.send", "CancelEmergencyNotification",
                "GetRecipientDetails", "GetReceiptDetails"}
     /\ (op = "GetReceiptDetails" => PlainReceipt)) =>
        /\ err = "nil"
        /\ result # NilResult
        /\ "Limit" \in DOMAIN result => result.Limit = NilLimit

\* the instant the claim gives the integer v of a receipt: none for 0, the
\* instant of that Unix second for every other integer
InstantOf(v) == IF v = 0 THEN [nil |-> TRUE] ELSE [unix |-> v]

\* the last call decoded a receipt into a ReceiptDetails
ReceiptDecoded ==
    /\ Answered /\ op = "GetReceiptDetails" /\ resp.Body.kind = "object"
    /\ err = "nil" /\ result.type = "ReceiptDetails"

\* C18: in a decoded receipt each of acknowledged_at, last_delivered_at,
\* expires_at and called_back_at is an absent instant (nil) when its integer
\* is 0 and the instant of exactly that Unix second for every other integer.
C18_ReceiptInstants ==
    ReceiptDecoded =>
        /\ result.AcknowledgedAt = InstantOf(resp.Body.obj.acknowledged_at)
        /\ result.LastDeliveredAt = InstantOf(resp.Body.obj.last_delivered_at)
        /\ result.ExpiresAt = InstantOf(resp.Body.obj.expires_at)
        /\ result.CalledBackAt = InstantOf(resp.Body.obj.called_back_at)

\* the receipt of the response has its three flags, as integers, and its
\* four instants
FullReceipt ==
    /\ Answered /\ op = "GetReceiptDetails" /\ resp.Body.kind = "object"
    /\ \A n \in 1..3 : receiptFlags[n] \in DOMAIN resp.Body.obj
    /\ \A n \in 1..4 : receiptTimes[n] \in DOMAIN resp.Body.obj

\* C19: when a receipt is decoded each of the flags acknowledged, expired and
\* called_back is false for the integer 0 and true for the integer 1, and
\* any other integer in any one of the three makes the decoding of the whole
\* receipt fail with an error: no ReceiptDetails is returned.
C19_ReceiptFlags ==
    FullReceipt =>
        IF \A n \in 1..3 : resp.Body.obj[receiptFlags[n]] \in {0, 1}
        THEN /\ err = "nil"
             /\ result.type = "ReceiptDetails"
             /\ result.Acknowledged = (resp.Body.obj.acknowledged = 1)
             /\ result.Expired = (resp.Body.obj.expired = 1)
             /\ result.CalledBack = (resp.Body.obj.called_back = 1)
        ELSE err # "nil" /\ result = NilResult

\* C19 witness: a receipt with acknowledged 1, expired 0 and called_back 2
\* was answered and its decoding failed
C19_Witness ==
    /\ FullReceipt
    /\ resp.Body.obj.acknowledged = 1 /\ resp.Body.obj.expired = 0
    /\ resp.Body.obj.called_back = 2
    /\ err = "Failed to unmarshal int to bool" /\ result = NilResult

\* C20: GetRecipientDetails returns ErrInvalidRecipient and no
\* RecipientDetails whenever the service answers a status different from 1,
\* and the decoded RecipientDetails with no error only when the status is 1.
C20_InvalidRecipient ==
    (Answered /\ op = "GetRecipientDetails" /\ Readable) =>
        /\ BodyStatus # 1 => (err = "ErrInvalidRecipient" /\ result = NilResult)
        /\ (err = "nil" /\ result # NilResult) => BodyStatus = 1

-----------------------------------------------------------------------------
(* The claims about the public operations *)

\* the operations of the client that talk to the service
PublicOps ==
    {"SendMessage", "SendGlanceUpdate", "GetRecipientDetails",
     "GetReceiptDetails", "CancelEmergencyNotification"}

\* the last call was a public operation and has returned
PublicReturned == pc = "done" /\ op \in PublicOps

\* C21: Pushover.GetReceiptDetails called with an empty receipt returns
\* ErrEmptyReceipt and no details, and issues no HTTP request in that call.
C21_EmptyReceipt ==
    (pc = "done" /\ op = "GetReceiptDetails" /\ receipt = <<>>) =>
        /\ err = "ErrEmptyReceipt"
        /\ result = NilResult
        /\ sent = 0 /\ req = NoRequest

\* C21 witness: GetReceiptDetails was called with the empty receipt on a
\* client with a valid token and has returned
C21_Witness ==
    /\ pc = "done" /\ op = "GetReceiptDetails" /\ receipt = <<>>
    /\ TokenShape(token) /\ sent = 0

\* the rules of a glance, in the order of the claim: data present, title,
\* text and subtext at most 100 code points, percent in 0..100, every
\* device name of the list well formed
GlanceViolates(i, g) ==
    CASE i = 1 -> /\ g.Title = <<>> /\ g.Text = <<>> /\ g.Subtext = <<>>
                  /\ g.Count = 0 /\ g.Percent = 0
      [] i = 2 -> RuneCount(g.Title) > 100
      [] i = 3 -> RuneCount(g.Text) > 100
      [] i = 4 -> RuneCount(g.Subtext) > 100
      [] i = 5 -> g.Percent \notin 0..100
      [] i = 6 -> g.DeviceName # <<>> /\ ~DeviceListValid(g.DeviceName)

\* the error of each rule of a glance
GlanceErrors ==
    <<"ErrGlancesMissingData", "ErrGlancesTitleTooLong", "ErrGlancesTextTooLong",
      "ErrGlancesSubtextTooLong", "ErrGlancesInvalidPercent",
      "ErrInvalidDeviceName">>

\* the rules g violates
GlanceViolated(g) == {i \in 1..6 : GlanceViolates(i, g)}

\* C22: in every public operation validation precedes the network: a call
\* that issued a request has a sender token of the valid shape, a recipient
\* token of the valid shape where the operation takes a recipient, and a
\* message or glance that violates no rule where it takes one.
C22_ValidationBeforeNetwork ==
    (PublicReturned /\ sent > 0) =>
        /\ TokenShape(token)
        /\ op \in {"SendMessage", "SendGlanceUpdate", "GetRecipientDetails"} =>
              TokenShape(rcpt)
        /\ op = "SendMessage" => Violated(msg) = {}
        /\ op = "SendGlanceUpdate" => GlanceViolated(glance) = {}

\* C23: every public operation is single-shot: a call issues at most one
\* request, and a call that failed after its request (transport error, 5xx,
\* decode error, status different from 1, bad quota headers) returns the
\* failure and no result, having issued that one request only.
C23_SingleShot ==
    PublicReturned =>
        /\ sent \in {0, 1}
        /\ (sent > 0 /\ err # "nil") => (sent = 1 /\ result = NilResult)

\* C23 witness: SendMessage was answered 503 and returned ErrHTTPPushover
\* after its one request
C23_Witness ==
    /\ PublicReturned /\ op = "SendMessage" /\ sent = 1 /\ ~resp.Failed
    /\ resp.StatusCode = 503 /\ err = "ErrHTTPPushover"

\* C24: Glance.validate runs the empty-update check first (whatever the
\* DeviceName is), then the title, text and subtext length checks (more than
\* 100 code points), the percent check and the device-name check: the error
\* is the one of the first rule the glance violates, nil when it violates
\* none.
C24_GlanceRuleOrder ==
    (pc = "done" /\ op = "Glance.validate") =>
        IF GlanceViolated(glance) = {} THEN err = "nil"
        ELSE \E i \in GlanceViolated(glance) :
                /\ \A j \in GlanceViolated(glance) : i <= j
                /\ err = GlanceErrors[i]

\* C24 witness: a glance without data and with an invalid DeviceName was
\* rejected with ErrGlancesMissingData
C24_Witness ==
    /\ pc = "done" /\ op = "Glance.validate"
    /\ GlanceViolated(glance) = {1, 6}
    /\ err = "ErrGlancesMissingData"

\* C25 (first part): the token of the client and the base URL are the same
\* before and after every step of every interleaving of concurrent calls.
C25_NoWrite == [][token' = token /\ APIEndpoint' = APIEndpoint]_vars

\* C25 (second part): every request built by a concurrent call carries the
\* token of the client and targets the base URL.
C25_SameConfiguration ==
    \A g \in Goroutines :
        calls[g].req # NoRequest =>
            /\ calls[g].req.Fields["token"] = token
            /\ calls[g].req.URL[1] = APIEndpoint
            /\ calls[g].url[1] = APIEndpoint

\* C25: no operation writes the sender token or the base URL after the
\* client is constructed: across any interleaving of concurrent calls each
\* call sends the token given to New and targets the same base endpoint, and
\* neither value changes during a call.
C25_ReadOnlyConfiguration == C25_NoWrite /\ []C25_SameConfiguration

\* C25 witness: one goroutine is between the two halves of SendMessage while
\* the other has sent the request of its own call
C25_Witness ==
    \E g, h \in Goroutines :
        /\ calls[g].pc = "encoded"
        /\ calls[h].pc = "done" /\ calls[h].sent = 1
        /\ calls[h].req.Fields["token"] = token

\* C26: the file handle multipartRequest opens on the attachment is released
\* on every exit path: no handle opened by the call is open when it returns,
\* with a request or with an error.
C26_FileClosed ==
    (pc = "done" /\ op \in {"multipartRequest", "SendMessage"}) => openFiles = 0

\* C26 witness: multipartRequest opened an attachment, failed on the copy
\* and returned no request
C26_Witness ==
    /\ pc = "done" /\ op = "multipartRequest" /\ req = NoRequest
    /\ msg.AttachmentPath = <<100>> /\ msg.AttachmentPath \in DOMAIN fs
    /\ err = "read: is a directory"
    /\ openFiles = 0

\* the fields of ReceiptDetails of the four instants, by the order of
\* receiptTimes
InstantFields ==
    <<"AcknowledgedAt", "LastDeliveredAt", "ExpiresAt", "CalledBackAt">>

\* C27: decoding a receipt body that omits one or more of acknowledged_at,
\* last_delivered_at, expires_at, called_back_at completes without fault and
\* yields an absent instant for each omitted field.
C27_OmittedInstants ==
    (/\ Answered /\ op = "GetReceiptDetails" /\ resp.Body.kind = "object"
     /\ \A n \in 1..3 : receiptFlags[n] \in DOMAIN resp.Body.obj =>
                            resp.Body.obj[receiptFlags[n]] \in {0, 1}
     /\ \E n \in 1..4 : receiptTimes[n] \notin DOMAIN resp.Body.obj) =>
        /\ err = "nil"
        /\ result.type = "ReceiptDetails"
        /\ \A n \in 1..4 :
              receiptTimes[n] \notin DOMAIN resp.Body.obj =>
                  result[InstantFields[n]] = InstantOf(0)

\* C28: the attachment written into a request that SendMessage sent never
\* exceeds the ceiling of 2621440 bytes, also when the file is replaced or
\* grows between the size check and the read.
C28_AttachmentCeiling ==
    \A g \in Goroutines :
        (calls[g].op = "SendMessage" /\ calls[g].sent > 0) =>
            \A n \in 1..Len(calls[g].req.Files) :
                calls[g].req.Files[n].Size <= 2621440

\* C29: every operation that obtained an HTTP response has closed the
\* response body when it returns, on every exit path.
C29_BodyClosed ==
    (PublicReturned /\ sent > 0 /\ ~resp.Failed) => openBodies = 0

\* C30: result and error are mutually exclusive in every public operation:
\* a call returns either a result and a nil error or no result and an error,
\* and a result returned without error that carries a status has status 1.
C30_ResultXorError ==
    PublicReturned =>
        /\ \/ result # NilResult /\ err = "nil"
           \/ result = NilResult /\ err # "nil"
        /\ (err = "nil" /\ "Status" \in DOMAIN result) => result.Status = 1

============================================================================
